---- MODULE Spec2Model ----
(***************************************************************************)
(* Model of the BinBank waste-management programs:                         *)
(*   - telegram_waste_bot.py : the conversational bot (prog = "bot"),      *)
(*   - waste_management.py   : the menu driven variant (prog = "cli").     *)
(* A run executes one of the two programs; both keep their tables in a     *)
(* sqlite database, modelled by users / pickup_requests /                  *)
(* recycling_transactions holding the COMMITTED rows.  Every handler is    *)
(* one action: python-telegram-bot processes one update at a time, so a    *)
(* handler runs to completion before the next update is taken.             *)
(*                                                                         *)
(* Conventions: a nullable column or an absent dictionary key is the       *)
(* empty tuple <<>> and a present value v is <<v>> (codes, that are        *)
(* strings of digits, are tuples of digits, None/'' being <<>>); text      *)
(* fields that are never None use "" for an absent key.                    *)
(***************************************************************************)
EXTENDS Integers, Sequences, FiniteSets, TLC

(***************************************************************************)
(* Bounds of the model.                                                    *)
(***************************************************************************)
MaxRequests == 2      \* rows of pickup_requests of the bot
MaxTxns     == 1      \* rows of recycling_transactions
MaxDigit    == 1      \* digits drawn by the random source: 0..MaxDigit
MaxCoord    == 2      \* latitudes the geocoder returns: 0..MaxCoord
MaxCliUsers == 3      \* rows the menu program registers
MaxCliRequests == 1   \* rows of pickup_requests of the menu program

(***************************************************************************)
(* Program constants.                                                      *)
(***************************************************************************)
CodeLen == 4          \* random.choices(string.digits, k=4)
RewardAmount == 2000000   \* int(os.getenv('CARDANO_REWARD_AMOUNT', '2000000'))

\* Telegram ids (bot) and row ids (menu program).
Ids == {1, 2, 3, 4}

None == <<>>
Some(v) == <<v>>

\* ConversationHandler states (the range(10) of the source) and END.
END                          == "END"
CHOOSING_ROLE                == "CHOOSING_ROLE"
ENTER_NAME                   == "ENTER_NAME"
ENTER_PHONE                  == "ENTER_PHONE"
ENTER_LOCATION               == "ENTER_LOCATION"
ENTER_VERIFICATION_CODE      == "ENTER_VERIFICATION_CODE"
ENTER_WEIGHT                 == "ENTER_WEIGHT"
ENTER_RECYCLING_VERIFICATION == "ENTER_RECYCLING_VERIFICATION"
ENTER_RECYCLER_NAME          == "ENTER_RECYCLER_NAME"
ENTER_WASTE_DESCRIPTION      == "ENTER_WASTE_DESCRIPTION"
ENTER_WALLET                 == "ENTER_WALLET"
\* A handler that returns None (a bare return) leaves the state as it is.
RetNone == "None"

Creator   == "Waste Creator"
Collector == "Waste Collector"
Recycler  == "Recycling Company"

VARIABLES
    prog,                    \* which program runs: "bot" or "cli"
    people,                  \* the telegram ids that talk to the bot in this run
    users,                   \* table users (set of rows)
    pickup_requests,         \* table pickup_requests (rows in rowid order)
    recycling_transactions,  \* table recycling_transactions (rows in rowid order)
    conv,                    \* ConversationHandler state per user (END: none)
    user_data,               \* context.user_data per user
    last,                    \* the last dispatch or handshake step that changed the state, and what it did
    expected,                \* history: the pickup code each collector's open /complete waits for
    buttons                  \* the users whose chat shows an 'I have a wallet' button

vars == <<prog, people, users, pickup_requests, recycling_transactions, conv, user_data, last,
          expected, buttons>>

(***************************************************************************)
(* Inputs.                                                                 *)
(***************************************************************************)
\* The role each person picks on the reply keyboard of /start.
RoleTyped(uid) == CASE uid = 1 -> Creator
                    [] uid = 3 -> Recycler
                    [] OTHER   -> Collector

\* What a person can send at the role question: the reply keyboard offers the
\* three roles, and any other text is a message like them.
RoleTexts(uid) == {RoleTyped(uid), "Admin"}

\* What an operation on the sqlite file does: it works, or it raises
\* sqlite3.Error (file locked, disk full).
StoreResults == {"ok", "error"}

\* The name a person types at registration.
NameTyped(uid) == CASE uid = 1 -> "Ann"
                    [] uid = 3 -> "Acme"
                    [] OTHER   -> "Bob"

\* Coordinates: the model's world is one meridian; latitude 0 is the equator.
Lon    == 5
Coords == {<<lat, Lon>> : lat \in 0..MaxCoord}

\* What the geocoder answers at registration: no match (None), a transport
\* error, or a location.
Geo(st, lat, lon) == [st |-> st, latitude |-> lat, longitude |-> lon]
GeocodeResults == {Geo("none", 0, 0), Geo("error", 0, 0), Geo("ok", 1, Lon)}

\* string.digits, '0123456789', as the sequence of its digits
string_digits == [i \in 1..10 |-> i - 1]

\* random.choices(population, k = Len(idx)): idx are the positions drawn
random_choices(population, idx) == [i \in 1..Len(idx) |-> population[idx[i]]]

\* generate_verification_code with one digit less
generate_verification_code_short(idx) ==
    random_choices(string_digits, SubSeq(idx, 1, Len(idx) - 1))

\* ''.join(random.choices(string.digits, k=4)): a code is the sequence of its digits
generate_verification_code(idx) == random_choices(string_digits, idx)

\* The positions the random source draws for one code: the last one among the
\* first MaxDigit + 1 of string.digits, the leading ones the first ('0').
Draws == {d \in [1..CodeLen -> 1..(MaxDigit + 1)] : \A i \in 1..(CodeLen - 1) : d[i] = 1}

Codes == {generate_verification_code(d) : d \in Draws}

\* Recipients the Notifier cannot reach while one handler runs for uid (the
\* chat the update came from is reachable): nobody, or one other person.
Outages(uid) == {{}} \cup {{v} : v \in people \ {uid}}

\* The weight a recycler types: float(text) raises ValueError (ok = FALSE), or
\* gives the number v, or gives the float nan (the text "nan").
WeightInputs == {[ok |-> FALSE, nan |-> FALSE, v |-> 0], [ok |-> TRUE, nan |-> FALSE, v |-> 0],
                 [ok |-> TRUE, nan |-> FALSE, v |-> 2], [ok |-> TRUE, nan |-> TRUE, v |-> 0]}

\* The recycling company name a collector types.
NamePatterns == {"Acme", "Zed"}

(***************************************************************************)
(* Python helpers.                                                         *)
(***************************************************************************)
\* Truth value of a nullable number: None and 0 (0.0) are false.
Truthy(v) == v # None /\ v[1] # 0

\* all([lat, lon])
AllCoords(lat, lon) == Truthy(lat) /\ Truthy(lon)

Abs(x) == IF x < 0 THEN -x ELSE x

\* geodesic(p, q).kilometers for two known points (stand-in metric).
geodesic(lat1, lon1, lat2, lon2) == Abs(lat1 - lat2) + Abs(lon1 - lon2)

\* A float that may be float('inf'): <<d>> is the finite d, <<>> is inf.
Inf == <<>>
Fin(d) == <<d>>
\* a < b on such floats
FloatLess(a, b) == a # Inf /\ (b = Inf \/ a[1] < b[1])

\* an event of a handler run
Ev(op, to, msg) == [op |-> op, to |-> to, msg |-> msg]
COMMIT == Ev("commit", 0, "")
\* cursor.execute of an INSERT or UPDATE
SQL(what) == Ev("sql", 0, what)

\* context.bot.send_message(chat_id = to, ...) under the outage set down
Send(to, msg, down) == Ev(IF to \in down THEN "send_failed" ELSE "send", to, msg)
\* update.message.reply_text(...)
Reply(uid, msg) == Ev("reply", uid, msg)

EmptyData == [role |-> "", full_name |-> "", phone |-> "",
              current_pickup |-> None, verification_code |-> None,
              current_transaction |-> None, collector_id |-> None,
              wallet_user_id |-> None, wallet_role |-> None]

\* rows of a table (a set) in rowid order
RECURSIVE ByRowid(_)
ByRowid(S) == IF S = {} THEN <<>>
              ELSE LET r == CHOOSE x \in S : \A y \in S : x.telegram_id <= y.telegram_id
                   IN  <<r>> \o ByRowid(S \ {r})

\* cursor.fetchone() of a select by telegram_id: the row, or None
FetchUser(uid) == IF \E u \in users : u.telegram_id = uid
                  THEN Some(CHOOSE u \in users : u.telegram_id = uid)
                  ELSE None

\* ' text '.strip(): SP is a blank, texts are tuples of digits and blanks
SP == 0 - 1
RECURSIVE lstrip(_)
lstrip(t) == IF t # <<>> /\ Head(t) = SP THEN lstrip(Tail(t)) ELSE t
RECURSIVE rstrip(_)
rstrip(t) == IF t # <<>> /\ t[Len(t)] = SP THEN rstrip(SubSeq(t, 1, Len(t) - 1)) ELSE t
strip(t) == rstrip(lstrip(t))

\* What a handler run leaves behind.
Outcome(us, prs, rts, ud, ret, evs) ==
    [users |-> us, pickup_requests |-> prs, recycling_transactions |-> rts,
     data |-> ud, ret |-> ret, events |-> evs]

\* A handler run that changed a table, the session or the conversation state.
Effective(uid, o) ==
    \/ o.users # users
    \/ o.pickup_requests # pickup_requests
    \/ o.recycling_transactions # recycling_transactions
    \/ o.data # user_data[uid]
    \/ (o.ret # RetNone /\ o.ret # conv[uid])

\* The handlers of the dispatch and of the two code handshakes.
Observed == {"process_waste_description", "complete_pickup", "verify_pickup_code",
             "process_weight", "verify_recycling", "verify_recycling_code"}

\* History of the pickup handshake of uid.  A /complete that delivered its code
\* opens it with that code; a /complete whose code was not delivered, an
\* accepted submission and the start of any other flow close it; a rejected
\* submission, a handler that returns no state (or raises before returning),
\* and a message no handler takes leave it as it is.
ExpectedAfter(uid, handler, o) ==
    IF handler = "complete_pickup"
    THEN IF o.ret = ENTER_VERIFICATION_CODE THEN o.data.verification_code
         ELSE IF o.data # user_data[uid] THEN None
         ELSE expected[uid]
    ELSE IF handler = "verify_pickup_code"
    THEN IF o.events = <<Reply(uid, "invalid_code")>> THEN expected[uid] ELSE None
    ELSE IF handler = "unhandled" \/ o.ret = RetNone THEN expected[uid]
    ELSE None

\* The chats that received the wallet prompt, with its inline keyboard, in a run.
ButtonsSent(evs) ==
    {evs[k].to : k \in {i \in 1..Len(evs) : evs[i].op = "send" /\ evs[i].msg = "wallet_prompt"}}

\* The ConversationHandler / Application applies the outcome of a handler.
\* last keeps the latest Effective run of an Observed handler, with what it did.
\* text: the message text when it is a candidate code, <<>> otherwise.
Apply(uid, handler, text, o) ==
    /\ users' = o.users
    /\ pickup_requests' = o.pickup_requests
    /\ recycling_transactions' = o.recycling_transactions
    /\ user_data' = [user_data EXCEPT ![uid] = o.data]
    /\ conv' = [conv EXCEPT ![uid] = IF o.ret = RetNone THEN @ ELSE o.ret]
    /\ last' = IF handler \in Observed /\ Effective(uid, o)
               THEN [handler |-> handler, user |-> uid, text |-> text,
                     ret |-> o.ret, events |-> o.events]
               ELSE last
    /\ expected' = [expected EXCEPT ![uid] = ExpectedAfter(uid, handler, o)]
    /\ buttons' = buttons \cup ButtonsSent(o.events)
    /\ UNCHANGED <<prog, people>>

\* An outcome that touches no table.
Same(uid, ud, ret, evs) ==
    Outcome(users, pickup_requests, recycling_transactions, ud, ret, evs)

(***************************************************************************)
(* Registration: /start, role, name, phone, location.                      *)
(***************************************************************************)
\* start without its lookup of the sender in users
start_outcome_no_lookup(uid) ==
    Same(uid, user_data[uid], CHOOSING_ROLE, <<Reply(uid, "choose_role")>>)

start_outcome(uid) ==
    IF FetchUser(uid) # None
    THEN Same(uid, user_data[uid], END, <<Reply(uid, "welcome_back")>>)
    ELSE Same(uid, user_data[uid], CHOOSING_ROLE, <<Reply(uid, "choose_role")>>)

start(uid) ==
    /\ prog = "bot"
    /\ conv[uid] = END
    /\ Apply(uid, "start", <<>>, start_outcome(uid))

role_chosen(uid, text) ==
    /\ prog = "bot"
    /\ conv[uid] = CHOOSING_ROLE
    /\ Apply(uid, "role_chosen", <<>>,
             Same(uid, [user_data[uid] EXCEPT !.role = text], ENTER_NAME,
                  <<Reply(uid, "enter_name")>>))

name_entered(uid) ==
    /\ prog = "bot"
    /\ conv[uid] = ENTER_NAME
    /\ LET text == NameTyped(uid)
       IN  Apply(uid, "name_entered", <<>>,
                 Same(uid, [user_data[uid] EXCEPT !.full_name = text], ENTER_PHONE,
                      <<Reply(uid, "enter_phone")>>))

phone_entered(uid) ==
    /\ prog = "bot"
    /\ conv[uid] = ENTER_PHONE
    /\ LET text == "555"
       IN  Apply(uid, "phone_entered", <<>>,
                 Same(uid, [user_data[uid] EXCEPT !.phone = text], ENTER_LOCATION,
                      <<Reply(uid, "enter_location")>>))

\* INSERT INTO users: telegram_id is the PRIMARY KEY, is_online DEFAULT 1.
NewUserRow(uid, ud, text, loc) ==
    [telegram_id |-> uid, full_name |-> ud.full_name, phone_number |-> ud.phone,
     location_text |-> text, latitude |-> Some(loc.latitude),
     longitude |-> Some(loc.longitude),
     role |-> ud.role, is_online |-> 1, wallet_address |-> None]

\* location_entered ending the conversation when the place is not found
location_outcome_gives_up(uid, text, g) ==
    IF g.st = "ok" /\ FetchUser(uid) = None
    THEN Outcome(users \cup {NewUserRow(uid, user_data[uid], text, g)},
                 pickup_requests, recycling_transactions, user_data[uid], END,
                 <<SQL("insert_user"), COMMIT, Reply(uid, "registration_complete")>>)
    ELSE Same(uid, user_data[uid], END, <<Reply(uid, "location_not_found")>>)

location_outcome(uid, text, g) ==
    IF g.st = "error" \/ (g.st = "ok" /\ FetchUser(uid) # None)
    THEN \* geocode raised, or the INSERT hit the primary key: except branch
         Same(uid, user_data[uid], ENTER_LOCATION, <<Reply(uid, "location_error")>>)
    ELSE IF g.st = "none"
    THEN Same(uid, user_data[uid], ENTER_LOCATION, <<Reply(uid, "location_not_found")>>)
    ELSE Outcome(users \cup {NewUserRow(uid, user_data[uid], text, g)},
                 pickup_requests, recycling_transactions, user_data[uid], END,
                 <<SQL("insert_user"), COMMIT, Reply(uid, "registration_complete")>>)

location_entered(uid, g) ==
    /\ prog = "bot"
    /\ conv[uid] = ENTER_LOCATION
    /\ Apply(uid, "location_entered", <<>>, location_outcome(uid, "place", g))

(***************************************************************************)
(* /status                                                                 *)
(***************************************************************************)
\* /status that always writes 0
new_status_offline(current_status) == 0

\* new_status = 0 if current_status[0] else 1
new_status(current_status) == IF current_status # 0 THEN 0 ELSE 1

\* /status written as a replacement of the row, which drops its coordinates
toggle_outcome_replace(uid) ==
    LET current_status == FetchUser(uid)
    IN  IF current_status # None
        THEN LET row == current_status[1]
             IN  Outcome((users \ {row}) \cup {[row EXCEPT !.is_online = new_status(row.is_online),
                                                           !.latitude = None,
                                                           !.longitude = None]},
                         pickup_requests, recycling_transactions, user_data[uid],
                         RetNone, <<SQL("set_status"), COMMIT, Reply(uid, "status_set")>>)
        ELSE Same(uid, user_data[uid], RetNone, <<Reply(uid, "register_first")>>)

toggle_outcome(uid) ==
    LET current_status == FetchUser(uid)
    IN  IF current_status # None
        THEN LET row == current_status[1]
             IN  Outcome((users \ {row}) \cup {[row EXCEPT !.is_online = new_status(row.is_online)]},
                         pickup_requests, recycling_transactions, user_data[uid],
                         RetNone, <<SQL("set_status"), COMMIT, Reply(uid, "status_set")>>)
        ELSE Same(uid, user_data[uid], RetNone, <<Reply(uid, "register_first")>>)

\* /status is a plain CommandHandler: it runs in every conversation state.
\* The whole handler.  Its sqlite3 calls stand in no try block: when one of
\* them raises (store = "error") the exception leaves the handler, nothing
\* is written and nothing is sent.
toggle_status_outcome(uid, store) ==
    IF store = "error"
    THEN Same(uid, user_data[uid], RetNone, <<Ev("raise", 0, "")>>)
    ELSE toggle_outcome(uid)

toggle_status(uid, store) ==
    /\ prog = "bot"
    /\ Apply(uid, "toggle_status", <<>>, toggle_status_outcome(uid, store))

(***************************************************************************)
(* /request and the dispatch of the new request.                           *)
(***************************************************************************)
\* create_request without its test of the sender's role
create_request_outcome_any_role(uid) ==
    LET user_role == FetchUser(uid)
    IN  IF user_role = None
        THEN Same(uid, user_data[uid], RetNone, <<Reply(uid, "only_creators")>>)
        ELSE Same(uid, user_data[uid], ENTER_WASTE_DESCRIPTION, <<Reply(uid, "describe_waste")>>)

create_request_outcome(uid) ==
    LET user_role == FetchUser(uid)
    IN  IF user_role = None \/ user_role[1].role # Creator
        THEN Same(uid, user_data[uid], RetNone, <<Reply(uid, "only_creators")>>)
        ELSE Same(uid, user_data[uid], ENTER_WASTE_DESCRIPTION, <<Reply(uid, "describe_waste")>>)

create_request(uid) ==
    /\ prog = "bot"
    /\ conv[uid] = END
    /\ Apply(uid, "create_request", <<>>, create_request_outcome(uid))

\* the SELECT without its AND is_online = 1
OnlineCollectors_AnyStatus(us) ==
    LET Test(u) == u.role = Collector
    IN  SelectSeq(ByRowid(us), Test)

\* SELECT telegram_id, latitude, longitude FROM users
\* WHERE role = 'Waste Collector' AND is_online = 1      (rowid order)
OnlineCollectors(us) ==
    LET Test(u) == u.role = Collector /\ u.is_online = 1
    IN  SelectSeq(ByRowid(us), Test)

\* The key of min(): the distance to the creator, or inf for a collector whose
\* coordinates fail all([x[1], x[2]]).
DistanceKey(creator, x) ==
    IF AllCoords(x.latitude, x.longitude)
    THEN Fin(geodesic(creator.latitude[1], creator.longitude[1],
                      x.latitude[1], x.longitude[1]))
    ELSE Inf

\* Python's min(seq, key=...): the first element no later element beats.
PyMinIndex(keys) ==
    CHOOSE i \in 1..Len(keys) :
        /\ \A j \in 1..Len(keys) : ~FloatLess(keys[j], keys[i])
        /\ \A j \in 1..(i - 1) : FloatLess(keys[i], keys[j])

nearest_collector(creator, collectors) ==
    collectors[PyMinIndex([i \in 1..Len(collectors) |-> DistanceKey(creator, collectors[i])])]

\* geodesic() raises on a None coordinate of the creator
KeyRaises(creator, collectors) ==
    /\ creator.latitude = None \/ creator.longitude = None
    /\ \E i \in 1..Len(collectors) : AllCoords(collectors[i].latitude, collectors[i].longitude)

\* INSERT INTO pickup_requests (creator_id, waste_type, waste_description)
NewRequestRow(request_id, uid, text) ==
    [id |-> request_id, creator_id |-> uid, collector_id |-> None,
     waste_description |-> text, status |-> "pending"]

\* AssignRow without its SET collector_id = ?
AssignRow_StatusOnly(row, collector_id) == [row EXCEPT !.status = "assigned"]

\* UPDATE pickup_requests SET collector_id = ?, status = 'assigned' WHERE id = ?
AssignRow(row, collector_id) ==
    [row EXCEPT !.collector_id = Some(collector_id), !.status = "assigned"]

\* NoCollectorRow writing 'assigned' for 'pending'
NoCollectorRow_Assigned(row) == [row EXCEPT !.status = "assigned"]

\* UPDATE pickup_requests SET status = 'pending' WHERE id = ?
NoCollectorRow(row) == [row EXCEPT !.status = "pending"]

waste_description_outcome(uid, text, down) ==
    LET request_id == Len(pickup_requests) + 1
        row == NewRequestRow(request_id, uid, text)
        collectors == OnlineCollectors(users)
        creator_location == FetchUser(uid)
    IN  IF collectors # <<>> /\ creator_location # None
        THEN IF KeyRaises(creator_location[1], collectors)
             THEN \* the exception leaves the handler: nothing is committed
                  Same(uid, user_data[uid], RetNone, <<SQL("insert_request"), Ev("raise", 0, "")>>)
             ELSE LET nearest == nearest_collector(creator_location[1], collectors)
                  IN  Outcome(users,
                              Append(pickup_requests, AssignRow(row, nearest.telegram_id)),
                              recycling_transactions, user_data[uid], END,
                              <<SQL("insert_request"), SQL("assign_request"),
                                Reply(uid, "request_assigned"),
                                Send(nearest.telegram_id, "new_pickup", down),
                                COMMIT>>)
        ELSE Outcome(users, Append(pickup_requests, NoCollectorRow(row)),
                     recycling_transactions, user_data[uid], END,
                     <<SQL("insert_request"), SQL("set_pending"),
                       Reply(uid, "no_collectors"), COMMIT>>)

process_waste_description(uid, down) ==
    /\ prog = "bot"
    /\ conv[uid] = ENTER_WASTE_DESCRIPTION
    /\ Len(pickup_requests) < MaxRequests
    /\ Apply(uid, "process_waste_description", <<>>,
             waste_description_outcome(uid, "plastic bottles", down))

(***************************************************************************)
(* /complete and the pickup code.                                          *)
(***************************************************************************)
\* SELECT id, creator_id FROM pickup_requests WHERE collector_id = ? AND status = 'assigned'
AssignedPickups(uid) ==
    LET Test(r) == r.collector_id = Some(uid) /\ r.status = "assigned"
    IN  SelectSeq(pickup_requests, Test)

\* complete_pickup_send_error with the exception swallowed: the handler goes on
complete_pickup_send_error_ignored(uid, ud, creator_id, down) ==
    Same(uid, ud, ENTER_VERIFICATION_CODE,
         <<Send(creator_id, "pickup_code", down), Reply(uid, "enter_pickup_code")>>)

\* except Exception: the code did not reach the creator
complete_pickup_send_error(uid, ud, creator_id, down) ==
    Same(uid, ud, RetNone,
         <<Send(creator_id, "pickup_code", down), Reply(uid, "could_not_notify_creator")>>)

complete_pickup_outcome(uid, code, down) ==
    LET user_role == FetchUser(uid)
        pickups == AssignedPickups(uid)
    IN  IF user_role = None \/ user_role[1].role # Collector
        THEN Same(uid, user_data[uid], RetNone, <<Reply(uid, "only_collectors")>>)
        ELSE IF pickups = <<>>
        THEN Same(uid, user_data[uid], RetNone, <<Reply(uid, "no_active_pickups")>>)
        ELSE LET ud == [user_data[uid] EXCEPT
                            !.current_pickup = <<pickups[1].id, pickups[1].creator_id>>,
                            !.verification_code = code]
                 creator_id == pickups[1].creator_id
             IN  IF creator_id \in down
                 THEN complete_pickup_send_error(uid, ud, creator_id, down)
                 ELSE Same(uid, ud, ENTER_VERIFICATION_CODE,
                           <<Send(creator_id, "pickup_code", down),
                             Reply(uid, "enter_pickup_code")>>)

complete_pickup(uid, code, down) ==
    /\ prog = "bot"
    /\ conv[uid] = END
    /\ Apply(uid, "complete_pickup", <<>>, complete_pickup_outcome(uid, code, down))

\* CompleteRequest without its WHERE id = ?: every assigned row is completed
CompleteRequest_EveryAssigned(prs, id) ==
    [i \in 1..Len(prs) |-> IF prs[i].status = "assigned" THEN [prs[i] EXCEPT !.status = "completed"]
                           ELSE prs[i]]

\* CompleteRequest writing 'pending' for 'completed'
CompleteRequest_Reopen(prs, id) ==
    [i \in 1..Len(prs) |-> IF prs[i].id = id THEN [prs[i] EXCEPT !.status = "pending"]
                           ELSE prs[i]]

\* UPDATE pickup_requests SET status = 'completed' WHERE id = ?
CompleteRequest(prs, id) ==
    [i \in 1..Len(prs) |-> IF prs[i].id = id THEN [prs[i] EXCEPT !.status = "completed"]
                           ELSE prs[i]]

\* ask_for_wallet(update, context, user_id, role): the prompt, and on a failed
\* send the error message to the same chat, whose failure leaves the function
AskWalletEvents(user_id, down) ==
    IF user_id \in down
    THEN <<Send(user_id, "wallet_prompt", down), Send(user_id, "wallet_error", down)>>
    ELSE <<Send(user_id, "wallet_prompt", down)>>

\* the sends of a matched code up to the first one that raises
CompletionEvents(uid, creator_id, collector_id, down) ==
    IF creator_id \in down
    THEN <<Send(creator_id, "pickup_complete", down), Reply(uid, "completion_error")>>
    ELSE IF collector_id \in down
    THEN <<Send(creator_id, "pickup_complete", down),
           Send(collector_id, "pickup_complete", down), Reply(uid, "completion_error")>>
    ELSE <<Send(creator_id, "pickup_complete", down),
           Send(collector_id, "pickup_complete", down)>>
         \o AskWalletEvents(creator_id, down) \o AskWalletEvents(collector_id, down)
         \o <<Reply(uid, "marked_completed")>>

\* provided_code == stored_code
CodesEqual(provided_code, stored_code) == provided_code = stored_code

verify_pickup_outcome(uid, text, down) ==
    LET provided_code == strip(text)
        pickup_info == user_data[uid].current_pickup
        stored_code == user_data[uid].verification_code
    IN  IF pickup_info = None \/ stored_code = None
        THEN Same(uid, user_data[uid], END, <<Reply(uid, "no_active_pickup")>>)
        ELSE IF CodesEqual(provided_code, stored_code)
        THEN LET hit == {i \in 1..Len(pickup_requests) : pickup_requests[i].id = pickup_info[1]}
             IN  IF hit = {}
                 THEN Same(uid, user_data[uid], END,
                           <<SQL("complete_request"), Reply(uid, "completion_error"), COMMIT>>)
                 ELSE LET r == pickup_requests[CHOOSE i \in hit : TRUE]
                      IN  Outcome(users, CompleteRequest(pickup_requests, pickup_info[1]),
                                  recycling_transactions, user_data[uid], END,
                                  <<SQL("complete_request")>>
                                  \o CompletionEvents(uid, r.creator_id, r.collector_id[1], down)
                                  \o <<COMMIT>>)
        ELSE Same(uid, user_data[uid], END, <<Reply(uid, "invalid_code")>>)

verify_pickup_code(uid, text, down) ==
    /\ prog = "bot"
    /\ conv[uid] = ENTER_VERIFICATION_CODE
    /\ Apply(uid, "verify_pickup_code", text, verify_pickup_outcome(uid, text, down))

(***************************************************************************)
(* Recycling: /recycle, /weight, /verify_recycling.                        *)
(***************************************************************************)
\* recycle without its check of the sender's role
recycle_outcome_any_role(uid) ==
    Same(uid, [user_data[uid] EXCEPT !.collector_id = Some(uid)],
         ENTER_RECYCLER_NAME, <<Reply(uid, "enter_recycler_name")>>)

recycle_outcome(uid) ==
    LET user_role == FetchUser(uid)
    IN  IF user_role = None \/ user_role[1].role # Collector
        THEN Same(uid, user_data[uid], RetNone, <<Reply(uid, "only_collectors")>>)
        ELSE Same(uid, [user_data[uid] EXCEPT !.collector_id = Some(uid)],
                  ENTER_RECYCLER_NAME, <<Reply(uid, "enter_recycler_name")>>)

recycle(uid) ==
    /\ prog = "bot"
    /\ conv[uid] = END
    /\ Apply(uid, "recycle", <<>>, recycle_outcome(uid))

\* full_name LIKE '%pattern%', on the names and patterns of the model
Like(full_name, pattern) == full_name = pattern

\* SELECT telegram_id, full_name FROM users WHERE role = 'Recycling Company'
\* AND full_name LIKE ?  -- fetchone(): the first row, or None
FindRecycler(pattern) ==
    LET Test(u) == u.role = Recycler /\ Like(u.full_name, pattern)
        found == SelectSeq(ByRowid(users), Test)
    IN  IF found = <<>> THEN None ELSE Some(found[1])

\* created_at DEFAULT CURRENT_TIMESTAMP has a resolution of one second: a new
\* row is stamped with the second of the newest row or a later one.
Stamps(rts) ==
    IF rts = <<>> THEN {1}
    ELSE LET newest == CHOOSE t \in {rts[i].created_at : i \in 1..Len(rts)} :
                           \A i \in 1..Len(rts) : rts[i].created_at <= t
         IN  {newest, newest + 1}

\* INSERT INTO recycling_transactions (collector_id, recycler_id, status)
NewTxnRow(id, collector_id, recycler_id, stamp) ==
    [id |-> id, collector_id |-> collector_id, recycler_id |-> recycler_id,
     weight_kg |-> None, amount_paid |-> None, verification_code |-> None,
     status |-> "pending", created_at |-> stamp]

recycler_name_outcome(uid, pattern, stamp, down) ==
    LET collector_id == user_data[uid].collector_id
        recycler == FindRecycler(pattern)
    IN  IF recycler = None
        THEN Same(uid, user_data[uid], ENTER_RECYCLER_NAME, <<Reply(uid, "no_recycler_found")>>)
        ELSE LET rid == recycler[1].telegram_id
                 row == NewTxnRow(Len(recycling_transactions) + 1, collector_id, rid, stamp)
             IN  IF rid \in down
                 THEN \* return END inside the try: the connection is closed uncommitted
                      Same(uid, user_data[uid], END,
                           <<SQL("insert_transaction"), Send(rid, "collector_arrived", down),
                             Reply(uid, "could_not_notify_recycler")>>)
                 ELSE Outcome(users, pickup_requests, Append(recycling_transactions, row),
                              user_data[uid], END,
                              <<SQL("insert_transaction"), Send(rid, "collector_arrived", down),
                                Reply(uid, "wait_for_weight"), COMMIT>>)

process_recycler_name(uid, pattern, stamp, down) ==
    /\ prog = "bot"
    /\ conv[uid] = ENTER_RECYCLER_NAME
    /\ Len(recycling_transactions) < MaxTxns
    /\ stamp \in Stamps(recycling_transactions)
    /\ Apply(uid, "process_recycler_name", <<>>, recycler_name_outcome(uid, pattern, stamp, down))

record_weight_outcome(uid) ==
    LET user_role == FetchUser(uid)
    IN  IF user_role = None \/ user_role[1].role # Recycler
        THEN Same(uid, user_data[uid], RetNone, <<Reply(uid, "only_recyclers")>>)
        ELSE Same(uid, user_data[uid], ENTER_WEIGHT, <<Reply(uid, "enter_weight")>>)

record_weight(uid) ==
    /\ prog = "bot"
    /\ conv[uid] = END
    /\ Apply(uid, "record_weight", <<>>, record_weight_outcome(uid))

\* SELECT ... FROM recycling_transactions WHERE recycler_id = ? AND status = 'pending'
\* ORDER BY created_at DESC LIMIT 1: the rows this can return (rows of the
\* same second come in an order sqlite does not promise); {0} when there is none.
LatestPending(uid) ==
    LET mine == {i \in 1..Len(recycling_transactions) :
                    /\ recycling_transactions[i].recycler_id = uid
                    /\ recycling_transactions[i].status = "pending"}
        newest == {i \in mine : \A j \in mine :
                      recycling_transactions[j].created_at <= recycling_transactions[i].created_at}
    IN  IF mine = {} THEN {0} ELSE newest

\* weight <= 0 on floats: every comparison with nan is False
FloatLeqZero(x) == ~x.nan /\ x.v <= 0

\* The value a REAL column takes from a bound float: sqlite3 stores nan as NULL.
Stored(x) == IF x.nan THEN None ELSE Some(x.v)

\* UPDATE recycling_transactions SET weight_kg = ?, amount_paid = ?, verification_code = ?
RecordWeight(rts, i, weight, amount, code) ==
    [rts EXCEPT ![i] = [@ EXCEPT !.weight_kg = Stored(weight), !.amount_paid = Stored(amount),
                                 !.verification_code = code]]

\* an except branch without conn.rollback(): the connection's writes stay
rollback_missing(committed, written) == written

\* conn.rollback(): the table is what the last commit left, the connection's
\* uncommitted writes are gone
rollback(committed, written) == committed

weight_outcome(uid, w, pick, code, down) ==
    IF ~w.ok
    THEN Same(uid, user_data[uid], ENTER_WEIGHT, <<Reply(uid, "enter_valid_number")>>)
    ELSE IF FloatLeqZero(w)
    THEN Same(uid, user_data[uid], ENTER_WEIGHT, <<Reply(uid, "weight_greater_than_0")>>)
    ELSE IF pick = 0
    THEN Same(uid, user_data[uid], END, <<Reply(uid, "no_pending_transaction")>>)
    ELSE LET pending_transaction == recycling_transactions[pick]
             collector == IF pending_transaction.collector_id = None THEN None
                          ELSE FetchUser(pending_transaction.collector_id[1])
         IN  IF collector = None
             THEN Same(uid, user_data[uid], END, <<Reply(uid, "collector_not_found")>>)
             ELSE LET amount == [w EXCEPT !.v = w.v * 1]
                      cid == collector[1].telegram_id
                      ud == [user_data[uid] EXCEPT
                                !.current_transaction = <<pending_transaction.id, cid, code>>]
                  IN  IF cid \in down
                      THEN \* the send raises: conn.rollback(), error reply
                           Outcome(users, pickup_requests,
                                   rollback(recycling_transactions,
                                            RecordWeight(recycling_transactions, pick, w, amount, code)),
                                   ud, END,
                                   <<SQL("record_weight"), Send(cid, "recycling_code", down),
                                     Ev("rollback", 0, ""), Reply(uid, "weight_error")>>)
                      ELSE Outcome(users, pickup_requests,
                                   RecordWeight(recycling_transactions, pick, w, amount, code),
                                   ud, ENTER_RECYCLING_VERIFICATION,
                                   <<SQL("record_weight"), Send(cid, "recycling_code", down),
                                     Reply(uid, "transaction_recorded"), COMMIT,
                                     Reply(uid, "enter_recycling_code")>>)

process_weight(uid, w, pick, code, down) ==
    /\ prog = "bot"
    /\ conv[uid] = ENTER_WEIGHT
    /\ pick \in LatestPending(uid)
    /\ Apply(uid, "process_weight", <<>>, weight_outcome(uid, w, pick, code, down))

\* verify_recycling that keeps what the session holds, without reading the row
verify_recycling_outcome_session_code(uid, pick) ==
    LET user_role == FetchUser(uid)
    IN  IF user_role = None \/ user_role[1].role # Recycler
        THEN Same(uid, user_data[uid], RetNone, <<Reply(uid, "only_recyclers")>>)
        ELSE IF pick = 0
        THEN Same(uid, user_data[uid], RetNone, <<Reply(uid, "no_pending_transactions")>>)
        ELSE Same(uid, user_data[uid], ENTER_RECYCLING_VERIFICATION,
                  <<Reply(uid, "enter_recycling_code")>>)

verify_recycling_outcome(uid, pick) ==
    LET user_role == FetchUser(uid)
    IN  IF user_role = None \/ user_role[1].role # Recycler
        THEN Same(uid, user_data[uid], RetNone, <<Reply(uid, "only_recyclers")>>)
        ELSE IF pick = 0
        THEN Same(uid, user_data[uid], RetNone, <<Reply(uid, "no_pending_transactions")>>)
        ELSE LET t == recycling_transactions[pick]
             IN  Same(uid, [user_data[uid] EXCEPT !.current_transaction =
                               <<t.id, IF t.collector_id = None THEN 0 ELSE t.collector_id[1],
                                 t.verification_code>>],
                      ENTER_RECYCLING_VERIFICATION, <<Reply(uid, "enter_recycling_code")>>)

verify_recycling(uid, pick) ==
    /\ prog = "bot"
    /\ conv[uid] = END
    /\ pick \in LatestPending(uid)
    /\ Apply(uid, "verify_recycling", <<>>, verify_recycling_outcome(uid, pick))

\* UPDATE recycling_transactions SET status = 'completed' WHERE id = ?
CompleteTxn(rts, id) ==
    [i \in 1..Len(rts) |-> IF rts[i].id = id THEN [rts[i] EXCEPT !.status = "completed"]
                           ELSE rts[i]]

verify_recycling_code_outcome(uid, text, down) ==
    LET provided_code == strip(text)
        transaction_info == user_data[uid].current_transaction
    IN  IF transaction_info = None
        THEN Same(uid, user_data[uid], END, <<Reply(uid, "no_active_recycling")>>)
        ELSE LET stored_code == transaction_info[3]
                 tid == transaction_info[1]
                 cid == transaction_info[2]
                 hit == {i \in 1..Len(recycling_transactions) :
                            recycling_transactions[i].id = tid}
                 \* the completion message formats weight and amount: None raises
                 formats == \E i \in hit : recycling_transactions[i].amount_paid # None
             IN  IF CodesEqual(provided_code, stored_code)
                 THEN Outcome(users, pickup_requests, CompleteTxn(recycling_transactions, tid),
                              user_data[uid], END,
                              <<SQL("complete_transaction")>>
                              \o (IF ~formats THEN <<Reply(uid, "verification_error")>>
                                  ELSE IF cid \in down
                                  THEN <<Send(uid, "recycling_complete", down),
                                         Send(cid, "recycling_complete", down),
                                         Reply(uid, "verification_error")>>
                                  ELSE <<Send(uid, "recycling_complete", down),
                                         Send(cid, "recycling_complete", down),
                                         Reply(uid, "marked_completed")>>)
                              \o <<COMMIT>>)
                 ELSE Same(uid, user_data[uid], END, <<Reply(uid, "invalid_code"), COMMIT>>)

verify_recycling_code(uid, text, down) ==
    /\ prog = "bot"
    /\ conv[uid] = ENTER_RECYCLING_VERIFICATION
    /\ Apply(uid, "verify_recycling_code", text, verify_recycling_code_outcome(uid, text, down))

(***************************************************************************)
(* The reward: the wallet button and the wallet address.                   *)
(***************************************************************************)
\* callback_data = f"has_wallet_{user_id}_{role}", as query.data.split('_')
CallbackData(user_id) ==
    <<"has", "wallet", user_id,
      IF \E u \in users : u.telegram_id = user_id /\ u.role = Creator
      THEN "creator" ELSE "collector">>

\* What the user types as an address: PaymentAddress.from_primitive raises or
\* not, and the payment is built or fails.
WalletInputs == [valid : BOOLEAN, paid : BOOLEAN]

wallet_callback_outcome(uid, parts) ==
    IF Len(parts) # 3
    THEN Same(uid, user_data[uid], END, <<Reply(uid, "wallet_request_error")>>)
    ELSE Same(uid, [user_data[uid] EXCEPT !.wallet_user_id = Some(parts[2]),
                                          !.wallet_role = Some(parts[3])],
              ENTER_WALLET, <<Send(parts[2], "enter_wallet_address", {})>>)

\* UPDATE users SET wallet_address = ? WHERE telegram_id = ?
SetWallet(us, user_id, wallet_address) ==
    {IF u.telegram_id = user_id THEN [u EXCEPT !.wallet_address = Some(wallet_address)]
     ELSE u : u \in us}

\* send_cardano_payment(wallet_address, cardano_config['reward_amount']):
\* the event names the address and, as its recipient, the amount.
Payment(wallet_address, amount) == Ev("send_payment", amount, wallet_address)

process_wallet_address_outcome(uid, a) ==
    LET wallet_address == "addr"
        user_id == IF user_data[uid].wallet_user_id # None
                   THEN user_data[uid].wallet_user_id[1] ELSE uid
    IN  IF ~a.valid
        THEN Same(uid, user_data[uid], ENTER_WALLET, <<Reply(uid, "invalid_wallet")>>)
        ELSE Outcome(SetWallet(users, user_id, wallet_address), pickup_requests,
                     recycling_transactions, user_data[uid], END,
                     <<SQL("set_wallet"), COMMIT, Payment(wallet_address, RewardAmount),
                       Reply(uid, IF a.paid THEN "reward_sent" ELSE "reward_error")>>)

\* What pressing the button does: the CallbackQueryHandler belongs to the
\* state ENTER_WALLET; in any other state, or with no conversation, no handler
\* takes the callback query.
route_callback(uid, parts) ==
    IF conv[uid] = ENTER_WALLET THEN wallet_callback_outcome(uid, parts)
    ELSE Same(uid, user_data[uid], RetNone, <<>>)

callback_query(uid) ==
    /\ prog = "bot"
    /\ uid \in buttons
    /\ Apply(uid, "callback_query", <<>>, route_callback(uid, CallbackData(uid)))

\* /cancel, the only fallback of the ConversationHandler
\* fallbacks=[CommandHandler('cancel', lambda u, c: ConversationHandler.END)]:
\* the callback is a plain function, and the handler awaits what it returns;
\* awaiting the integer END raises TypeError before the ConversationHandler
\* takes the new state, so the conversation stays where it is.
cancel_outcome(uid) ==
    Same(uid, user_data[uid], RetNone, <<Ev("raise", 0, "")>>)

cancel(uid) ==
    /\ prog = "bot"
    /\ conv[uid] # END
    /\ Apply(uid, "cancel", <<>>, cancel_outcome(uid))

\* What a plain text message of uid does: the ConversationHandler hands it to
\* the handler of the state uid is in; with no conversation nothing takes it.
route_text(uid, text, down) ==
    IF conv[uid] = ENTER_VERIFICATION_CODE THEN verify_pickup_outcome(uid, text, down)
    ELSE IF conv[uid] = ENTER_RECYCLING_VERIFICATION
    THEN verify_recycling_code_outcome(uid, text, down)
    ELSE IF conv[uid] = ENTER_WALLET
    THEN \* a string of digits is no address
         process_wallet_address_outcome(uid, [valid |-> FALSE, paid |-> FALSE])
    ELSE Same(uid, user_data[uid], RetNone, <<>>)

\* A plain text while no conversation is active: no handler takes it.
unhandled_text(uid, text) ==
    /\ prog = "bot"
    /\ conv[uid] = END
    /\ user_data[uid].verification_code # None \/ user_data[uid].current_transaction # None
    /\ Apply(uid, "unhandled", text, route_text(uid, text, {}))

(***************************************************************************)
(* waste_management.py: WasteManagementSystem and main_menu (prog = "cli").*)
(* Rows of users are keyed by id (autoincrement), is_online DEFAULT 0.     *)
(***************************************************************************)
RECURSIVE CliByRowid(_)
CliByRowid(S) == IF S = {} THEN <<>>
                 ELSE LET r == CHOOSE x \in S : \A y \in S : x.id <= y.id
                      IN  <<r>> \o CliByRowid(S \ {r})

\* get_user_details(user_id): cursor.fetchone()
get_user_details(user_id) ==
    IF \E u \in users : u.id = user_id
    THEN Some(CHOOSE u \in users : u.id = user_id)
    ELSE None

\* the roles dictionary of menu choice 1
MenuRoles == [c \in {"1", "2", "3"} |->
                 CASE c = "1" -> Creator [] c = "2" -> Collector [] OTHER -> Recycler]

\* The role choice the operator types for the next row.
MenuChoiceTyped(id) == IF id = 1 THEN {"1", "9"} ELSE {"2"}

\* register_user(full_name, phone_number, location, role)
register_user(us, full_name, phone_number, location, role, g) ==
    IF g.st = "error"
    THEN us      \* the exception is caught, None is returned
    ELSE us \cup {[id |-> Cardinality(us) + 1, full_name |-> full_name,
                   phone_number |-> phone_number, location_text |-> location,
                   latitude |-> IF g.st = "ok" THEN Some(g.latitude) ELSE None,
                   longitude |-> IF g.st = "ok" THEN Some(g.longitude) ELSE None,
                   role |-> role, is_online |-> 0]}

\* what the geocoder answers the menu program
CliGeocodeResults == {Geo("none", 0, 0), Geo("error", 0, 0)}
                     \cup {Geo("ok", c[1], c[2]) : c \in Coords}

CliStep(us, prs, what) ==
    /\ users' = us
    /\ pickup_requests' = prs
    /\ last' = [handler |-> what, user |-> 0, text |-> <<>>, ret |-> RetNone, events |-> <<>>]
    /\ UNCHANGED <<prog, people, recycling_transactions, conv, user_data, expected, buttons>>

\* menu choice 1
menu_register(role_choice, g) ==
    /\ prog = "cli"
    /\ Cardinality(users) < MaxCliUsers
    /\ role_choice \in MenuChoiceTyped(Cardinality(users) + 1)
    /\ CliStep(IF role_choice \in DOMAIN MenuRoles
               THEN register_user(users, "name", "555", "place", MenuRoles[role_choice], g)
               ELSE users,
               pickup_requests, "menu_register")

\* set_user_status(user_id, is_online)
set_user_status(us, user_id, is_online) ==
    {IF u.id = user_id THEN [u EXCEPT !.is_online = IF is_online THEN 1 ELSE 0] ELSE u : u \in us}

\* menu choice 2: an unknown id raises inside the try and changes nothing
menu_toggle(user_id) ==
    /\ prog = "cli"
    /\ LET details == get_user_details(user_id)
       IN  CliStep(IF details = None THEN users
                   ELSE set_user_status(users, user_id, ~(details[1].is_online # 0)),
                   pickup_requests, "menu_toggle")

\* find_available_collector: the for loop over the online collectors
RECURSIVE ScanCollectors(_, _, _, _, _)
ScanCollectors(creator, collectors, i, closest_collector, min_distance) ==
    IF i > Len(collectors) THEN <<closest_collector, min_distance>>
    ELSE LET collector == collectors[i]
         IN  IF ~AllCoords(collector.latitude, collector.longitude)
             THEN ScanCollectors(creator, collectors, i + 1, closest_collector, min_distance)
             ELSE LET distance == Fin(geodesic(creator.latitude[1], creator.longitude[1],
                                               collector.latitude[1], collector.longitude[1]))
                  IN  IF FloatLess(distance, min_distance)
                      THEN ScanCollectors(creator, collectors, i + 1, Some(collector.id), distance)
                      ELSE ScanCollectors(creator, collectors, i + 1, closest_collector, min_distance)

\* SELECT id, latitude, longitude FROM users
\* WHERE role = 'Waste Collector' AND is_online = 1      (rowid order)
cli_online_collectors(us) ==
    LET Test(u) == u.role = Collector /\ u.is_online = 1
    IN  SelectSeq(CliByRowid(us), Test)

\* find_available_collector taking the first online collector, wherever it is
find_first_online(us, creator_id) ==
    IF cli_online_collectors(us) = <<>> THEN None
    ELSE Some(cli_online_collectors(us)[1].id)

\* find_available_collector(creator_id): the collector id, or None
find_available_collector(us, creator_id) ==
    LET rows == {u \in us : u.id = creator_id}
    IN  IF rows = {} THEN None
        ELSE LET creator_location == CHOOSE u \in rows : TRUE
                 collectors == cli_online_collectors(us)
             IN  IF ~AllCoords(creator_location.latitude, creator_location.longitude)
                 THEN None
                 ELSE ScanCollectors(creator_location, collectors, 1, None, Inf)[1]

\* create_pickup_request(creator_id): the new row, or None for a non-creator
create_pickup_request(prs, creator_id) ==
    LET role == get_user_details(creator_id)
    IN  IF role = None \/ role[1].role # Creator
        THEN None
        ELSE Some([id |-> Len(prs) + 1, creator_id |-> creator_id,
                   collector_id |-> None, status |-> "pending"])

\* assign_collector_to_request(request_id, collector_id)
assign_collector_to_request(prs, request_id, collector_id) ==
    [i \in 1..Len(prs) |-> IF prs[i].id = request_id
                           THEN [prs[i] EXCEPT !.collector_id = Some(collector_id),
                                               !.status = "assigned"]
                           ELSE prs[i]]

\* menu choice 3
menu_create_outcome(creator_id) ==
    LET created == create_pickup_request(pickup_requests, creator_id)
    IN  IF created = None THEN pickup_requests
        ELSE LET prs == Append(pickup_requests, created[1])
                 collector_id == find_available_collector(users, creator_id)
             IN  IF Truthy(collector_id)
                 THEN assign_collector_to_request(prs, created[1].id, collector_id[1])
                 ELSE prs

menu_create(creator_id) ==
    /\ prog = "cli"
    /\ Len(pickup_requests) < MaxCliRequests
    /\ CliStep(users, menu_create_outcome(creator_id), "menu_create")

\* menu choice 6: complete_pickup(request_id)
cli_complete_pickup(prs, request_id) ==
    [i \in 1..Len(prs) |-> IF prs[i].id = request_id
                           THEN [prs[i] EXCEPT !.status = "completed"]
                           ELSE prs[i]]

menu_complete(request_id) ==
    /\ prog = "cli"
    /\ CliStep(users, cli_complete_pickup(pickup_requests, request_id), "menu_complete")

Init ==
    /\ prog = "bot"
    /\ people \in {{1, 2}, {2, 3}}
    /\ users = {}
    /\ pickup_requests = <<>>
    /\ recycling_transactions = <<>>
    /\ conv = [u \in Ids |-> END]
    /\ user_data = [u \in Ids |-> EmptyData]
    /\ last = [handler |-> "init", user |-> 0, text |-> <<>>, ret |-> RetNone, events |-> <<>>]
    /\ expected = [u \in Ids |-> None]
    /\ buttons = {}

Next ==
    \/ \E uid \in people : start(uid)
    \/ \E uid \in people : \E text \in RoleTexts(uid) : role_chosen(uid, text)
    \/ \E uid \in people : name_entered(uid)
    \/ \E uid \in people : phone_entered(uid)
    \/ \E uid \in people, g \in GeocodeResults : location_entered(uid, g)
    \/ \E uid \in people, store \in StoreResults : toggle_status(uid, store)
    \/ \E uid \in people : create_request(uid)
    \/ \E uid \in people : \E down \in Outages(uid) : process_waste_description(uid, down)
    \/ \E uid \in people, code \in Codes : \E down \in Outages(uid) : complete_pickup(uid, code, down)
    \/ \E uid \in people, text \in Codes : \E down \in Outages(uid) : verify_pickup_code(uid, text, down)
    \/ \E uid \in people : recycle(uid)
    \/ \E uid \in people, pattern \in NamePatterns, stamp \in 1..(MaxTxns + 1) : \E down \in Outages(uid) :
           process_recycler_name(uid, pattern, stamp, down)
    \/ \E uid \in people : record_weight(uid)
    \/ \E uid \in people, w \in WeightInputs, pick \in 0..MaxTxns, code \in Codes : \E down \in Outages(uid) :
           process_weight(uid, w, pick, code, down)
    \/ \E uid \in people, pick \in 0..MaxTxns : verify_recycling(uid, pick)
    \/ \E uid \in people, text \in Codes : \E down \in Outages(uid) : verify_recycling_code(uid, text, down)
    \/ \E uid \in people : cancel(uid)
    \/ \E uid \in people : callback_query(uid)
    \/ \E uid \in people, text \in Codes : unhandled_text(uid, text)

Spec == Init /\ [][Next]_vars

(***************************************************************************)
(* The dispatch on its own: the bot with a directory of one creator and    *)
(* two collectors that registered anywhere on the meridian, and the menu   *)
(* program from its empty database.                                        *)
(***************************************************************************)
RegisteredData(uid) ==
    [EmptyData EXCEPT !.role = RoleTyped(uid), !.full_name = NameTyped(uid), !.phone = "555"]

RegisteredRow(uid, lat, online) ==
    [NewUserRow(uid, RegisteredData(uid), "place", Geo("ok", lat, Lon))
        EXCEPT !.is_online = online]

InitDispatch ==
    /\ prog \in {"bot", "cli"}
    /\ people = IF prog = "bot" THEN {1, 2, 4} ELSE {}
    /\ \E lat \in [{1, 2, 4} -> 0..MaxCoord], online \in [{2, 4} -> {0, 1}] :
          users = IF prog = "bot"
                  THEN {RegisteredRow(1, lat[1], 1), RegisteredRow(2, lat[2], online[2]),
                        RegisteredRow(4, lat[4], online[4])}
                  ELSE {}
    /\ pickup_requests = <<>>
    /\ recycling_transactions = <<>>
    /\ conv = [u \in Ids |-> END]
    /\ user_data = [u \in Ids |-> IF prog = "bot" /\ u \in {1, 2, 4}
                                  THEN RegisteredData(u) ELSE EmptyData]
    /\ last = [handler |-> "init", user |-> 0, text |-> <<>>, ret |-> RetNone, events |-> <<>>]
    /\ expected = [u \in Ids |-> None]
    /\ buttons = {}

NextDispatch ==
    \/ \E uid \in people, store \in StoreResults : toggle_status(uid, store)
    \/ \E uid \in people : create_request(uid)
    \/ \E uid \in people : \E down \in Outages(uid) : process_waste_description(uid, down)
    \/ \E role_choice \in {"1", "2", "9"}, g \in CliGeocodeResults : menu_register(role_choice, g)
    \/ \E user_id \in 1..(MaxCliUsers + 1) : menu_toggle(user_id)
    \/ \E creator_id \in 1..(MaxCliUsers + 1) : menu_create(creator_id)
    \/ \E request_id \in 1..(MaxCliRequests + 1) : menu_complete(request_id)

SpecDispatch == InitDispatch /\ [][NextDispatch]_vars

(***************************************************************************)
(* Properties.                                                             *)
(***************************************************************************)
\* Coordinates are known when both columns hold a number (are not NULL).
Known(u) == u.latitude # None /\ u.longitude # None

\* The distance between two participants with known coordinates.
Distance(a, b) == geodesic(a.latitude[1], a.longitude[1], b.latitude[1], b.longitude[1])

\* collectors[i] is at minimal distance of creator, and the first such one.
IsNearestFirst(creator, collectors, i) ==
    /\ \A j \in 1..Len(collectors) :
           Distance(creator, collectors[i]) <= Distance(creator, collectors[j])
    /\ \A j \in 1..(i - 1) :
           Distance(creator, collectors[i]) < Distance(creator, collectors[j])

\* The row a dispatch added to the table prs, given the table before it.
Added(before, prs) == IF Len(prs) = Len(before) + 1 THEN Some(prs[Len(prs)]) ELSE None

\* The creators of the menu program's directory.
CliCreators == {u \in users : u.role = Creator}

NoSend(evs) == \A k \in 1..Len(evs) : evs[k].op \notin {"send", "send_failed"}

\* C1: for every requester with known coordinates and every non-empty list of
\* online collectors that all have known coordinates, the collector written to
\* the new request is at minimal distance of the requester, and among several
\* at that distance it is the first of the list -- in the bot
\* (process_waste_description) and in the menu program (choice 3).
C1_NearestCollectorAssigned ==
    /\ prog = "bot" =>
         \A uid \in people :
            LET creator == FetchUser(uid)
                collectors == OnlineCollectors(users)
            IN  ( /\ conv[uid] = ENTER_WASTE_DESCRIPTION
                  /\ creator # None /\ Known(creator[1])
                  /\ collectors # <<>>
                  /\ \A i \in 1..Len(collectors) : Known(collectors[i]) )
                => \A down \in Outages(uid) :
                      LET new == Added(pickup_requests,
                                       waste_description_outcome(uid, "plastic bottles", down).pickup_requests)
                      IN  /\ new # None
                          /\ \E i \in 1..Len(collectors) :
                                /\ new[1].collector_id = Some(collectors[i].telegram_id)
                                /\ IsNearestFirst(creator[1], collectors, i)
    /\ prog = "cli" =>
         \A creator \in CliCreators :
            LET collectors == cli_online_collectors(users)
            IN  ( /\ Known(creator)
                  /\ collectors # <<>>
                  /\ \A i \in 1..Len(collectors) : Known(collectors[i]) )
                => LET new == Added(pickup_requests, menu_create_outcome(creator.id))
                   IN  /\ new # None
                       /\ \E i \in 1..Len(collectors) :
                             /\ new[1].collector_id = Some(collectors[i].id)
                             /\ IsNearestFirst(creator, collectors, i)

\* The conversation state of uid after a handler run with outcome o.
NewConv(uid, o) == IF o.ret = RetNone THEN conv[uid] ELSE o.ret

\* The request id is stored as completed in the table prs.
Completed(prs, id) == \E i \in 1..Len(prs) : prs[i].id = id /\ prs[i].status = "completed"

\* C2: after any sequence of /complete commands and code submissions of a
\* collector, a submitted candidate code is accepted (the request becomes
\* completed) if and only if it equals the code of that collector's most
\* recent /complete.  expected[uid] is that code while the handshake is open.
C2_AcceptedIffMostRecentCode ==
    prog = "bot" =>
      \A uid \in people :
         expected[uid] # None =>
            \A text \in Codes : \A down \in Outages(uid) :
               Completed(route_text(uid, text, down).pickup_requests,
                         user_data[uid].current_pickup[1])
               <=> text = expected[uid]

\* C3: in both handshakes a submitted code that differs from the expected one
\* leaves the submitter in the same awaiting-code state, so that the next text
\* is checked against the same code again.
C3_MismatchStaysInState ==
    prog = "bot" =>
      \A uid \in people, text \in Codes : \A down \in Outages(uid) :
         /\ ( /\ conv[uid] = ENTER_VERIFICATION_CODE
              /\ user_data[uid].current_pickup # None
              /\ user_data[uid].verification_code # None
              /\ strip(text) # user_data[uid].verification_code )
            => NewConv(uid, verify_pickup_outcome(uid, text, down)) = ENTER_VERIFICATION_CODE
         /\ ( /\ conv[uid] = ENTER_RECYCLING_VERIFICATION
              /\ user_data[uid].current_transaction # None
              /\ strip(text) # user_data[uid].current_transaction[3] )
            => NewConv(uid, verify_recycling_code_outcome(uid, text, down))
                  = ENTER_RECYCLING_VERIFICATION

\* C4: in every state of the bot's ledger a pickup request has a collector_id
\* exactly when its status is 'assigned' or 'completed'.
C4_CollectorIffAssignedOrCompleted ==
    prog = "bot" =>
      \A i \in 1..Len(pickup_requests) :
         pickup_requests[i].collector_id # None
         <=> pickup_requests[i].status \in {"assigned", "completed"}

\* C4 happens: the ledger holds a completed request, with its collector.
C4_Witness ==
    /\ prog = "bot"
    /\ \E i \in 1..Len(pickup_requests) :
          /\ pickup_requests[i].status = "completed"
          /\ pickup_requests[i].collector_id # None

Rank(status) == CASE status = "pending" -> 0 [] status = "assigned" -> 1 [] OTHER -> 2

\* C5: no bot operation moves the status of a request backwards along
\* pending -> assigned -> completed, and no request disappears.
C5_StatusMonotone ==
    [][\A i \in 1..Len(pickup_requests) :
          /\ i <= Len(pickup_requests')
          /\ pickup_requests'[i].id = pickup_requests[i].id
          /\ Rank(pickup_requests'[i].status) >= Rank(pickup_requests[i].status)]_vars

\* C5 happens: a code submission has just completed an assigned request.
C5_Witness ==
    /\ prog = "bot"
    /\ last.handler = "verify_pickup_code"
    /\ user_data[last.user].current_pickup # None
    /\ Completed(pickup_requests, user_data[last.user].current_pickup[1])

\* C6: a request created while no collector is online, or while every online
\* collector has unknown coordinates, is stored 'pending' with no collector,
\* and no message goes to any collector.
C6_NoCollectorLeavesPending ==
    /\ prog = "bot" =>
         \A uid \in people :
            LET collectors == OnlineCollectors(users)
            IN  ( /\ conv[uid] = ENTER_WASTE_DESCRIPTION
                  /\ \A i \in 1..Len(collectors) : ~Known(collectors[i]) )
                => \A down \in Outages(uid) :
                      LET o == waste_description_outcome(uid, "plastic bottles", down)
                          new == Added(pickup_requests, o.pickup_requests)
                      IN  /\ new # None
                          /\ new[1].status = "pending"
                          /\ new[1].collector_id = None
                          /\ NoSend(o.events)
    /\ prog = "cli" =>
         \A creator \in CliCreators :
            LET collectors == cli_online_collectors(users)
            IN  (\A i \in 1..Len(collectors) : ~Known(collectors[i]))
                => LET new == Added(pickup_requests, menu_create_outcome(creator.id))
                   IN  /\ new # None
                       /\ new[1].status = "pending"
                       /\ new[1].collector_id = None

\* C6 happens: the bot has just stored a request as 'pending' while none of
\* the registered collectors was online.
C6_Witness ==
    /\ prog = "bot"
    /\ last.handler = "process_waste_description"
    /\ OnlineCollectors(users) = <<>>
    /\ \E u \in users : u.role = Collector
    /\ pickup_requests # <<>>
    /\ pickup_requests[Len(pickup_requests)].status = "pending"
    /\ pickup_requests[Len(pickup_requests)].collector_id = None
    /\ NoSend(last.events)

\* C7: a request whose creator has no known coordinates (latitude or longitude
\* absent) gets no collector, nobody is notified, and the request stays stored
\* as 'pending'.
C7_UnknownCreatorLeavesPending ==
    /\ prog = "bot" =>
         \A uid \in people :
            LET creator == FetchUser(uid)
            IN  (conv[uid] = ENTER_WASTE_DESCRIPTION /\ creator # None /\ ~Known(creator[1]))
                => \A down \in Outages(uid) :
                      LET o == waste_description_outcome(uid, "plastic bottles", down)
                          new == Added(pickup_requests, o.pickup_requests)
                      IN  /\ new # None
                          /\ new[1].status = "pending"
                          /\ new[1].collector_id = None
                          /\ NoSend(o.events)
    /\ prog = "cli" =>
         \A creator \in CliCreators :
            ~Known(creator)
            => LET new == Added(pickup_requests, menu_create_outcome(creator.id))
               IN  /\ new # None
                   /\ new[1].status = "pending"
                   /\ new[1].collector_id = None

\* C7 happens: the menu program has just stored a request of a creator whose
\* location was not geocoded, while a collector with a known place was online.
C7_Witness ==
    /\ prog = "cli"
    /\ last.handler = "menu_create"
    /\ pickup_requests # <<>>
    /\ LET new == pickup_requests[Len(pickup_requests)]
       IN  /\ new.status = "pending"
           /\ new.collector_id = None
           /\ \E creator \in CliCreators : creator.id = new.creator_id /\ ~Known(creator)
    /\ \E i \in 1..Len(cli_online_collectors(users)) :
           AllCoords(cli_online_collectors(users)[i].latitude,
                     cli_online_collectors(users)[i].longitude)

\* C8: the directory holds at most one row per telegram id, and /start of a
\* registered id answers with the welcome-back message, does not enter
\* CHOOSING_ROLE and leaves the directory and the session as they are.
C8_RegistrationUnique ==
    prog = "bot" =>
      /\ \A u, v \in users : u.telegram_id = v.telegram_id => u = v
      /\ \A uid \in people :
            (conv[uid] = END /\ FetchUser(uid) # None)
            => LET o == start_outcome(uid)
               IN  /\ o.events = <<Reply(uid, "welcome_back")>>
                   /\ NewConv(uid, o) = END
                   /\ o.users = users
                   /\ o.data = user_data[uid]

\* C8 happens: everybody has registered and can send /start again.
C8_Witness ==
    /\ prog = "bot"
    /\ \A uid \in people : FetchUser(uid) # None /\ conv[uid] = END

Failed(evs, msg) == \E k \in 1..Len(evs) : evs[k].op = "send_failed" /\ evs[k].msg = msg
Replied(evs, uid, msg) == \E k \in 1..Len(evs) : evs[k] = Reply(uid, msg)

\* C9: when the fresh code cannot be delivered (to the creator in /complete, to
\* the collector in the weight step) the initiator is not asked for a code,
\* is not put in the awaiting-code state, and gets an error message.
C9_IssueFailureAborts ==
    prog = "bot" =>
      \A uid \in people, code \in Codes : \A down \in Outages(uid) :
         /\ conv[uid] = END =>
               LET o == complete_pickup_outcome(uid, code, down)
               IN  Failed(o.events, "pickup_code")
                   => /\ NewConv(uid, o) # ENTER_VERIFICATION_CODE
                      /\ ~Replied(o.events, uid, "enter_pickup_code")
                      /\ Replied(o.events, uid, "could_not_notify_creator")
         /\ conv[uid] = ENTER_WEIGHT =>
               \A w \in WeightInputs, pick \in LatestPending(uid) :
                  LET o == weight_outcome(uid, w, pick, code, down)
                  IN  Failed(o.events, "recycling_code")
                      => /\ NewConv(uid, o) # ENTER_RECYCLING_VERIFICATION
                         /\ ~Replied(o.events, uid, "enter_recycling_code")
                         /\ ~Replied(o.events, uid, "transaction_recorded")
                         /\ Replied(o.events, uid, "weight_error")

\* C9 happens: a /complete whose code did not reach the creator has just run.
C9_Witness ==
    /\ prog = "bot"
    /\ last.handler = "complete_pickup"
    /\ Failed(last.events, "pickup_code")
    /\ conv[last.user] = END

\* Every write of the run is committed before the next message to another chat.
CommitBeforeNotify(evs) ==
    \A i, j \in 1..Len(evs) :
       (i < j /\ evs[i].op = "sql" /\ evs[j].op \in {"send", "send_failed"})
       => \E k \in (i + 1)..(j - 1) : evs[k] = COMMIT

\* C10: in every handler that writes the ledger and then notifies a participant
\* (dispatch, pickup completion, recycle initiation, weight recording,
\* recycling completion) the commit of the write comes before the first
\* notification attempt.
C10_CommitBeforeNotify ==
    prog = "bot" =>
      \A uid \in people, text \in Codes : \A down \in Outages(uid) :
         /\ conv[uid] = ENTER_WASTE_DESCRIPTION =>
               CommitBeforeNotify(waste_description_outcome(uid, "plastic bottles", down).events)
         /\ conv[uid] = ENTER_VERIFICATION_CODE =>
               CommitBeforeNotify(verify_pickup_outcome(uid, text, down).events)
         /\ conv[uid] = ENTER_RECYCLER_NAME =>
               \A pattern \in NamePatterns, stamp \in Stamps(recycling_transactions) :
                  CommitBeforeNotify(recycler_name_outcome(uid, pattern, stamp, down).events)
         /\ conv[uid] = ENTER_WEIGHT =>
               \A w \in WeightInputs, pick \in LatestPending(uid) :
                  CommitBeforeNotify(weight_outcome(uid, w, pick, text, down).events)
         /\ conv[uid] = ENTER_RECYCLING_VERIFICATION =>
               CommitBeforeNotify(verify_recycling_code_outcome(uid, text, down).events)

\* The replies that tell the sender that something went wrong.
ErrorTexts == {"location_error", "could_not_notify_creator", "completion_error",
               "could_not_notify_recycler", "weight_error", "verification_error",
               "collector_not_found"}

ToldOfError(evs, uid) ==
    \E k \in 1..Len(evs) : evs[k].op = "reply" /\ evs[k].to = uid /\ evs[k].msg \in ErrorTexts

AnySendFailed(evs) == \E k \in 1..Len(evs) : evs[k].op = "send_failed"

\* C11: in the dispatch, the pickup completion on a matching code and the
\* creation of a recycling transaction, a notification that fails after the
\* write leaves the write in the store when the handler returns, and the
\* sender of the message is told that something did not complete.
C11_SendFailureKeepsWrite ==
    prog = "bot" =>
      \A uid \in people, text \in Codes : \A down \in Outages(uid) :
         /\ conv[uid] = ENTER_WASTE_DESCRIPTION =>
               LET o == waste_description_outcome(uid, "plastic bottles", down)
                   new == Added(pickup_requests, o.pickup_requests)
               IN  AnySendFailed(o.events)
                   => /\ new # None
                      /\ new[1].status = "assigned"
                      /\ ToldOfError(o.events, uid)
         /\ conv[uid] = ENTER_VERIFICATION_CODE =>
               LET o == verify_pickup_outcome(uid, text, down)
               IN  AnySendFailed(o.events)
                   => /\ Completed(o.pickup_requests, user_data[uid].current_pickup[1])
                      /\ ToldOfError(o.events, uid)
         /\ conv[uid] = ENTER_RECYCLER_NAME =>
               \A pattern \in NamePatterns, stamp \in Stamps(recycling_transactions) :
                  LET o == recycler_name_outcome(uid, pattern, stamp, down)
                  IN  AnySendFailed(o.events)
                      => /\ Added(recycling_transactions, o.recycling_transactions) # None
                         /\ ToldOfError(o.events, uid)


HasPayment(evs) ==
    \E k \in 1..Len(evs) : evs[k].op = "send_payment" /\ evs[k].to = RewardAmount

\* C12: the reward payout is reachable.  A participant whose chat shows the
\* 'I have a wallet' button after a pickup handshake, and who presses it, is
\* then in the wallet-address state, and a valid address submitted in that
\* state invokes the payment with that address and the fixed amount.
C12_PayoutReachable ==
    prog = "bot" =>
        \A uid \in buttons :
            /\ NewConv(uid, route_callback(uid, CallbackData(uid))) = ENTER_WALLET
            /\ conv[uid] = ENTER_WALLET =>
                   \A a \in WalletInputs :
                       a.valid => HasPayment(process_wallet_address_outcome(uid, a).events)


Recorded(t) == t.weight_kg # None /\ t.amount_paid # None /\ t.verification_code # None

\* C13: a recycling transaction becomes 'completed' only in a run of
\* verify_recycling_code whose text equals the code stored in its row, so a
\* completed transaction has weight, amount and code; a text that differs from
\* the stored code, and any text while the code is NULL, leaves a pending row
\* exactly as it was.
C13_CompletionNeedsStoredCode ==
    /\ [](prog = "bot" =>
           /\ \A i \in 1..Len(recycling_transactions) :
                 recycling_transactions[i].status = "completed"
                    => Recorded(recycling_transactions[i])
           /\ \A uid \in people, text \in Codes : \A down \in Outages(uid) :
                 \A i \in 1..Len(recycling_transactions) :
                    (/\ recycling_transactions[i].status = "pending"
                     /\ strip(text) # recycling_transactions[i].verification_code)
                    => route_text(uid, text, down).recycling_transactions[i]
                          = recycling_transactions[i])
    /\ [][\A i \in 1..Len(recycling_transactions) :
            (/\ recycling_transactions[i].status = "pending"
             /\ i <= Len(recycling_transactions')
             /\ recycling_transactions'[i].status = "completed")
            => /\ last'.handler = "verify_recycling_code"
               /\ strip(last'.text) = recycling_transactions[i].verification_code
               /\ Recorded(recycling_transactions'[i])]_vars



(***************************************************************************)
(* The recycler's side of the hand-off, started where collectors 2 and 4   *)
(* have handed waste to recycling company 3: up to MaxPending committed    *)
(* pending transactions, created in rowid order within two clock seconds.  *)
(***************************************************************************)
MaxPending == 2

PendingQueues ==
    UNION {{[i \in 1..n |-> NewTxnRow(i, Some(c[i]), 3, s[i])] :
               c \in [1..n -> {2, 4}],
               s \in {t \in [1..n -> {1, 2}] : \A i \in 1..(n - 1) : t[i] <= t[i + 1]}} :
           n \in 1..MaxPending}

InitRecycling ==
    /\ prog = "bot"
    /\ people = {2, 3, 4}
    /\ users = {RegisteredRow(u, 1, 1) : u \in {2, 3, 4}}
    /\ pickup_requests = <<>>
    /\ recycling_transactions \in PendingQueues
    /\ conv = [u \in Ids |-> END]
    /\ user_data = [u \in Ids |->
          IF \E i \in 1..Len(recycling_transactions) :
                recycling_transactions[i].collector_id = Some(u)
          THEN [RegisteredData(u) EXCEPT !.collector_id = Some(u)]
          ELSE IF u \in {2, 3, 4} THEN RegisteredData(u) ELSE EmptyData]
    /\ last = [handler |-> "init", user |-> 0, text |-> <<>>, ret |-> RetNone, events |-> <<>>]
    /\ expected = [u \in Ids |-> None]
    /\ buttons = {}

NextRecycling ==
    \/ \E uid \in people : record_weight(uid)
    \/ \E uid \in people, w \in WeightInputs, code \in Codes :
          \E pick \in 0..Len(recycling_transactions), down \in Outages(uid) :
              process_weight(uid, w, pick, code, down)
    \/ \E uid \in people : \E pick \in 0..Len(recycling_transactions) : verify_recycling(uid, pick)
    \/ \E uid \in people, text \in Codes : \E down \in Outages(uid) :
          verify_recycling_code(uid, text, down)
    \/ \E uid \in people : cancel(uid)

SpecRecycling == InitRecycling /\ [][NextRecycling]_vars

\* The pending transactions of recycler uid, as rowids.
PendingOf(uid) ==
    {i \in 1..Len(recycling_transactions) :
        /\ recycling_transactions[i].recycler_id = uid
        /\ recycling_transactions[i].status = "pending"}

\* C14: the transaction that process_weight and /verify_recycling read, and
\* that process_weight updates, is the most recently created pending
\* transaction of the recycler, and the step changes no other transaction.
C14_LatestPendingOnly ==
    \A uid \in people : \A pick \in LatestPending(uid) \ {0} :
        /\ \A j \in PendingOf(uid) : j <= pick
        /\ \A w \in WeightInputs, code \in Codes : \A down \in Outages(uid) :
              \A j \in 1..Len(recycling_transactions) :
                  j # pick => weight_outcome(uid, w, pick, code, down).recycling_transactions[j]
                                 = recycling_transactions[j]
        /\ verify_recycling_outcome(uid, pick).recycling_transactions = recycling_transactions


HasRole(uid, role) == FetchUser(uid) # None /\ FetchUser(uid)[1].role = role

\* The run told uid one thing and did nothing else: no row, no session entry,
\* no conversation state.
Refused(uid, o) ==
    /\ o.users = users
    /\ o.pickup_requests = pickup_requests
    /\ o.recycling_transactions = recycling_transactions
    /\ o.data = user_data[uid]
    /\ NewConv(uid, o) = conv[uid]
    /\ Len(o.events) = 1 /\ o.events[1].op = "reply" /\ o.events[1].to = uid

\* C15: /request from someone who is not a registered Waste Creator, /complete
\* or /recycle from someone who is not a registered Waste Collector, /weight or
\* /verify_recycling from someone who is not a registered Recycling Company
\* ends with one message to the sender and changes no row, no session entry
\* and no conversation state.
C15_RoleGating ==
    prog = "bot" =>
        \A uid \in people :
            /\ ~HasRole(uid, Creator) => Refused(uid, create_request_outcome(uid))
            /\ ~HasRole(uid, Collector) =>
                  /\ \A code \in Codes : \A down \in Outages(uid) :
                         Refused(uid, complete_pickup_outcome(uid, code, down))
                  /\ Refused(uid, recycle_outcome(uid))
            /\ ~HasRole(uid, Recycler) =>
                  /\ Refused(uid, record_weight_outcome(uid))
                  /\ \A pick \in LatestPending(uid) : Refused(uid, verify_recycling_outcome(uid, pick))

\* C15 happens: with no conversation open, a registered creator is refused
\* /recycle and an unregistered user is refused /request.
C15_Witness ==
    /\ prog = "bot"
    /\ \E u \in people, v \in people :
          /\ HasRole(u, Creator) /\ conv[u] = END
          /\ recycle_outcome(u).events = <<Reply(u, "only_collectors")>>
          /\ FetchUser(v) = None /\ conv[v] = END
          /\ create_request_outcome(v).events = <<Reply(v, "only_creators")>>


\* C16: a code submitted while the session has no active request or
\* transaction, or no expected code for it, ends the conversation, tells the
\* user to start the command again and changes no request and no transaction.
C16_MissingContextTerminal ==
    prog = "bot" =>
        \A uid \in people, text \in Codes : \A down \in Outages(uid) :
            LET o == route_text(uid, text, down)
            IN  /\ (/\ conv[uid] = ENTER_VERIFICATION_CODE
                    /\ \/ user_data[uid].current_pickup = None
                       \/ user_data[uid].verification_code = None)
                   => /\ o.ret = END
                      /\ Replied(o.events, uid, "no_active_pickup")
                      /\ o.pickup_requests = pickup_requests
                /\ (/\ conv[uid] = ENTER_RECYCLING_VERIFICATION
                    /\ \/ user_data[uid].current_transaction = None
                       \/ user_data[uid].current_transaction[3] = None)
                   => /\ o.ret = END
                      /\ Replied(o.events, uid, "no_active_recycling")
                      /\ o.recycling_transactions = recycling_transactions


HasRow(us, uid) == \E u \in us : u.telegram_id = uid

\* C17: /start from an unregistered sender opens the role question; the
\* conversation then moves role -> name -> phone -> location one state per
\* message and in that order (it can only leave the sequence by ending); the
\* users row is created in the step that leaves the location state with a
\* geocoded place, which ends the conversation; a place that is not found, or a
\* geocoder error, keeps the location state and creates no row.
C17_RegistrationOrder ==
    /\ [](prog = "bot" =>
            \A uid \in people :
               /\ (conv[uid] = END /\ ~HasRow(users, uid))
                     => /\ start_outcome(uid).ret = CHOOSING_ROLE
                        /\ start_outcome(uid).users = users
               /\ conv[uid] = ENTER_LOCATION
                     => \A g \in GeocodeResults :
                           LET o == location_outcome(uid, "place", g)
                           IN  IF g.st = "ok"
                               THEN /\ o.ret = END
                                    /\ ~HasRow(users, uid) /\ HasRow(o.users, uid)
                                    /\ \A u \in o.users : u.telegram_id # uid => u \in users
                               ELSE o.ret = ENTER_LOCATION /\ o.users = users)
    /\ [][prog = "bot" =>
            \A uid \in people :
               /\ conv'[uid] # conv[uid] =>
                     /\ conv'[uid] = CHOOSING_ROLE => conv[uid] = END /\ ~HasRow(users, uid)
                     /\ conv'[uid] = ENTER_NAME => conv[uid] = CHOOSING_ROLE
                     /\ conv'[uid] = ENTER_PHONE => conv[uid] = ENTER_NAME
                     /\ conv'[uid] = ENTER_LOCATION => conv[uid] = ENTER_PHONE
                     /\ conv[uid] = CHOOSING_ROLE => conv'[uid] \in {ENTER_NAME, END}
                     /\ conv[uid] = ENTER_NAME => conv'[uid] \in {ENTER_PHONE, END}
                     /\ conv[uid] = ENTER_PHONE => conv'[uid] \in {ENTER_LOCATION, END}
                     /\ conv[uid] = ENTER_LOCATION => conv'[uid] = END
               /\ (~HasRow(users, uid) /\ HasRow(users', uid))
                     => conv[uid] = ENTER_LOCATION /\ conv'[uid] = END]_vars

\* C17 happens: somebody went through the four questions and is registered.
C17_Witness ==
    /\ prog = "bot"
    /\ \E uid \in people :
          /\ HasRow(users, uid)
          /\ conv[uid] = END
          /\ user_data[uid].phone = "555"


\* C18: only the location, weight and wallet-address states can keep the
\* conversation where it is.  A message handled in the waste-description,
\* recycler-name, pickup-code or recycling-code state always moves the
\* conversation to another state or ends it (the role, name and phone states
\* advance on every message: role_chosen, name_entered, phone_entered).
C18_OnlyThreeSelfLoops ==
    prog = "bot" =>
        \A uid \in people : \A down \in Outages(uid) :
            /\ conv[uid] = ENTER_WASTE_DESCRIPTION
                  => NewConv(uid, waste_description_outcome(uid, "plastic bottles", down)) # conv[uid]
            /\ conv[uid] = ENTER_RECYCLER_NAME
                  => \A pattern \in NamePatterns, stamp \in Stamps(recycling_transactions) :
                        NewConv(uid, recycler_name_outcome(uid, pattern, stamp, down)) # conv[uid]
            /\ conv[uid] \in {ENTER_VERIFICATION_CODE, ENTER_RECYCLING_VERIFICATION}
                  => \A text \in Codes : NewConv(uid, route_text(uid, text, down)) # conv[uid]


\* C19: every row of users has one of the three roles, whatever was sent at
\* the role question.
C19_ClosedRoleSet ==
    \A u \in users : u.role \in {Creator, Collector, Recycler}


\* C20: a row of users, once there, stays, and keeps its telegram_id,
\* full_name, phone_number, location_text, latitude, longitude and role in
\* every step of the bot; is_online changes only in a step that changes nothing
\* but that row (/status), and wallet_address only in a step that ends a
\* conversation in the wallet-address state.
C20_ParticipantImmutable ==
    [][prog = "bot" =>
         \A u \in users :
            \E v \in users' :
               /\ v.telegram_id = u.telegram_id
               /\ v.full_name = u.full_name
               /\ v.phone_number = u.phone_number
               /\ v.location_text = u.location_text
               /\ v.latitude = u.latitude
               /\ v.longitude = u.longitude
               /\ v.role = u.role
               /\ v.is_online # u.is_online =>
                     /\ users' = (users \ {u}) \cup {[u EXCEPT !.is_online = v.is_online]}
                     /\ UNCHANGED <<pickup_requests, recycling_transactions, conv, user_data>>
               /\ v.wallet_address # u.wallet_address =>
                     \E uid \in people : conv[uid] = ENTER_WALLET /\ conv'[uid] = END]_vars

\* C20 happens: a registered participant has switched offline with /status.
C20_Witness ==
    /\ prog = "bot"
    /\ \E u \in users : u.is_online = 0 /\ u.telegram_id \in people


\* C21: the collector written to a new request is a Waste Collector whose
\* is_online was 1 in the users table the dispatch read, in every interleaving
\* of /status with requests; and a step that changes users (a later /status)
\* changes no request.
C21_DispatchReadsSnapshot ==
    [][prog = "bot" =>
         /\ \A i \in 1..Len(pickup_requests') :
               (i > Len(pickup_requests) /\ pickup_requests'[i].collector_id # None)
               => \E u \in users :
                     /\ Some(u.telegram_id) = pickup_requests'[i].collector_id
                     /\ u.role = Collector
                     /\ u.is_online = 1
         /\ users' # users => pickup_requests' = pickup_requests]_vars

\* C21 happens: a collector went offline after a request was assigned to them,
\* and the request is still assigned to them.
C21_Witness ==
    /\ prog = "bot"
    /\ \E i \in 1..Len(pickup_requests) : \E u \in users :
          /\ pickup_requests[i].status = "assigned"
          /\ pickup_requests[i].collector_id = Some(u.telegram_id)
          /\ u.is_online = 0


Escapes(evs) == \E k \in 1..Len(evs) : evs[k].op = "raise"
Told(evs, uid) == \E k \in 1..Len(evs) : evs[k].op = "reply" /\ evs[k].to = uid

\* C22: no failure inside a handler leaves the handler.  A store operation
\* that raises in /status, the distance computation of the dispatch and a
\* failed send in any of the flows end in a message to the user, never in an
\* exception handed to the messaging layer.
C22_NoUncaughtFailure ==
    prog = "bot" =>
        \A uid \in people :
            /\ \A store \in StoreResults :
                  LET o == toggle_status_outcome(uid, store)
                  IN  ~Escapes(o.events) /\ Told(o.events, uid)
            /\ \A down \in Outages(uid) :
                  /\ conv[uid] = ENTER_WASTE_DESCRIPTION
                        => ~Escapes(waste_description_outcome(uid, "plastic bottles", down).events)
                  /\ conv[uid] = END
                        => \A code \in Codes :
                              ~Escapes(complete_pickup_outcome(uid, code, down).events)
                  /\ conv[uid] = ENTER_RECYCLER_NAME
                        => \A pattern \in NamePatterns, stamp \in Stamps(recycling_transactions) :
                              ~Escapes(recycler_name_outcome(uid, pattern, stamp, down).events)
                  /\ conv[uid] = ENTER_WEIGHT
                        => \A w \in WeightInputs, code \in Codes : \A pick \in LatestPending(uid) :
                              ~Escapes(weight_outcome(uid, w, pick, code, down).events)
                  /\ \A text \in Codes : ~Escapes(route_text(uid, text, down).events)


\* C23: when a code submission completes the request or the transaction and
\* ends the conversation, the session of the submitter no longer holds the
\* code nor the reference to the request or the transaction.
C23_SessionTeardown ==
    prog = "bot" =>
        \A uid \in people, text \in Codes : \A down \in Outages(uid) :
            LET o == route_text(uid, text, down)
            IN  /\ (/\ conv[uid] = ENTER_VERIFICATION_CODE
                    /\ o.ret = END
                    /\ o.pickup_requests # pickup_requests)
                   => /\ o.data.current_pickup = None
                      /\ o.data.verification_code = None
                /\ (/\ conv[uid] = ENTER_RECYCLING_VERIFICATION
                    /\ o.ret = END
                    /\ o.recycling_transactions # recycling_transactions)
                   => o.data.current_transaction = None


\* C24: a weight text that is not a number, or is not greater than 0, keeps
\* the recycler in the weight state and changes no transaction; so every
\* transaction with a weight has weight_kg > 0 and amount_paid = weight_kg * 1.
C24_WeightValidated ==
    prog = "bot" =>
        /\ \A uid \in people :
              conv[uid] = ENTER_WEIGHT =>
                 \A w \in WeightInputs, code \in Codes :
                    \A pick \in LatestPending(uid), down \in Outages(uid) :
                       (~w.ok \/ w.nan \/ ~(w.v > 0))
                       => LET o == weight_outcome(uid, w, pick, code, down)
                          IN  /\ NewConv(uid, o) = ENTER_WEIGHT
                              /\ o.recycling_transactions = recycling_transactions
        /\ \A i \in 1..Len(recycling_transactions) :
              LET t == recycling_transactions[i]
              IN  t.weight_kg # None
                     => t.weight_kg[1] > 0 /\ t.amount_paid = Some(t.weight_kg[1] * 1)


(***************************************************************************)
(* The dispatch programs under the assumption that they keep taking steps: *)
(* people keep sending messages and the application keeps handling them.   *)
(***************************************************************************)
SpecServe == InitDispatch /\ [][NextDispatch]_vars /\ WF_vars(NextDispatch)

\* Request number i is stored 'pending' while a collector the dispatch could
\* pick (online, with coordinates that pass all([lat, lon])) is in users.
PendingWhileAvailable(i) ==
    /\ prog = "bot"
    /\ i <= Len(pickup_requests)
    /\ pickup_requests[i].status = "pending"
    /\ LET collectors == OnlineCollectors(users)
       IN  \E k \in 1..Len(collectors) :
              AllCoords(collectors[k].latitude, collectors[k].longitude)

Served(i) ==
    /\ i <= Len(pickup_requests)
    /\ pickup_requests[i].status \in {"assigned", "completed"}

\* C25: a request stored 'pending' for want of a collector is assigned later,
\* once a collector is available.
C25_PendingEventuallyServed ==
    \A i \in 1..MaxRequests : PendingWhileAvailable(i) ~> Served(i)


IsFourDigits(c) == Len(c) = 4 /\ \A i \in 1..Len(c) : c[i] \in 0..9

\* C27: every code issued by /complete or by the weight step, wherever the
\* bot keeps it (the session of the collector, the session of the recycler,
\* the transaction row), is a string of exactly 4 decimal digits.
C27_CodeFormat ==
    prog = "bot" =>
        /\ \A uid \in people :
              /\ user_data[uid].verification_code # None
                    => IsFourDigits(user_data[uid].verification_code)
              /\ (user_data[uid].current_transaction # None
                    /\ user_data[uid].current_transaction[3] # None)
                    => IsFourDigits(user_data[uid].current_transaction[3])
        /\ \A i \in 1..Len(recycling_transactions) :
              recycling_transactions[i].verification_code # None
                 => IsFourDigits(recycling_transactions[i].verification_code)

\* C27 happens: a collector waits in the code state with a code that /complete
\* issued, one that starts with a zero.
C27_Witness ==
    /\ prog = "bot"
    /\ \E uid \in people :
          /\ conv[uid] = ENTER_VERIFICATION_CODE
          /\ user_data[uid].verification_code # None
          /\ user_data[uid].verification_code[1] = 0


\* C28: in the menu program, after any sequence of menu choices, a request
\* has a collector_id exactly when its status is 'assigned' or 'completed',
\* and no menu choice takes a completed request back to another status.
C28_CliLedger ==
    prog = "cli" =>
        /\ \A i \in 1..Len(pickup_requests) :
              pickup_requests[i].collector_id # None
              <=> pickup_requests[i].status \in {"assigned", "completed"}
        /\ \A i \in 1..Len(pickup_requests) :
              pickup_requests[i].status = "completed" =>
                 /\ \A request_id \in 1..(MaxCliRequests + 1) :
                       cli_complete_pickup(pickup_requests, request_id)[i].status = "completed"
                 /\ \A creator_id \in 1..(MaxCliUsers + 1) :
                       menu_create_outcome(creator_id)[i].status = "completed"


\* C29: /cancel sent in any awaiting state ends the conversation of the
\* sender and changes no row of users, pickup_requests or
\* recycling_transactions.
C29_CancelEndsFlow ==
    prog = "bot" =>
        \A uid \in people :
            conv[uid] # END =>
                LET o == cancel_outcome(uid)
                IN  /\ NewConv(uid, o) = END
                    /\ o.users = users
                    /\ o.pickup_requests = pickup_requests
                    /\ o.recycling_transactions = recycling_transactions


\* C30: when the code cannot be sent to the collector while a weight is being
\* recorded, the stored weight_kg, amount_paid and verification_code of the
\* transaction are what they were before the message, the transaction is still
\* 'pending', and the recycler's conversation ends with the error message.
C30_WeightAllOrNothing ==
    prog = "bot" =>
      \A uid \in people, code \in Codes : \A down \in Outages(uid) :
         conv[uid] = ENTER_WEIGHT =>
            \A w \in WeightInputs, pick \in LatestPending(uid) :
               LET o == weight_outcome(uid, w, pick, code, down)
               IN  Failed(o.events, "recycling_code")
                   => LET before == recycling_transactions[pick]
                          after  == o.recycling_transactions[pick]
                      IN  /\ after.weight_kg = before.weight_kg
                          /\ after.amount_paid = before.amount_paid
                          /\ after.verification_code = before.verification_code
                          /\ after.status = "pending"
                          /\ NewConv(uid, o) = END
                          /\ Replied(o.events, uid, "weight_error")

\* C30 happens: a weight message whose code did not reach the collector has
\* just been processed and the transaction is still pending without a weight.
C30_Witness ==
    /\ prog = "bot"
    /\ last.handler = "process_weight"
    /\ Failed(last.events, "recycling_code")
    /\ conv[last.user] = END
    /\ \E i \in 1..Len(recycling_transactions) :
          /\ recycling_transactions[i].status = "pending"
          /\ recycling_transactions[i].weight_kg = None


\* The collector uid awaits a pickup code: the session names the first of the
\* collector's assigned requests, with its creator, and the code to compare
\* with is the code of the collector's most recent /complete.
SessionNamesFirstAssigned(uid) ==
    LET pickups == AssignedPickups(uid)
    IN  /\ pickups # <<>>
        /\ user_data[uid].current_pickup = <<pickups[1].id, pickups[1].creator_id>>
        /\ user_data[uid].verification_code # None
        /\ user_data[uid].verification_code = expected[uid]

\* The step that puts uid in the awaiting-code state is a /complete of uid that
\* sent its code to the creator of the first of uid's assigned requests.
CodeWentToCreator(uid) ==
    (conv[uid] # ENTER_VERIFICATION_CODE /\ conv'[uid] = ENTER_VERIFICATION_CODE)
    => LET pickups == AssignedPickups(uid)
       IN  /\ pickups # <<>>
           /\ last'.handler = "complete_pickup"
           /\ last'.user = uid
           /\ \E k \in 1..Len(last'.events) :
                 last'.events[k] = Ev("send", pickups[1].creator_id, "pickup_code")
           /\ user_data'[uid].current_pickup = <<pickups[1].id, pickups[1].creator_id>>

\* The table after is the table before with the one row of request id moved
\* from 'assigned' to 'completed'.
OnlyCompletes(before, after, id) ==
    /\ Len(after) = Len(before)
    /\ \E i \in 1..Len(before) : before[i].id = id /\ before[i].status = "assigned"
    /\ \A i \in 1..Len(before) :
          after[i] = IF before[i].id = id THEN [before[i] EXCEPT !.status = "completed"]
                     ELSE before[i]

\* a matching code completes the request named by the session and nothing else
MatchCompletesNamedRequest ==
    prog = "bot" =>
      \A uid \in people, text \in Codes : \A down \in Outages(uid) :
         (conv[uid] = ENTER_VERIFICATION_CODE /\ text = expected[uid])
         => LET o == verify_pickup_outcome(uid, text, down)
            IN  /\ OnlyCompletes(pickup_requests, o.pickup_requests, AssignedPickups(uid)[1].id)
                /\ o.users = users
                /\ o.recycling_transactions = recycling_transactions

\* C31: a matching pickup code completes exactly the request whose creator was
\* sent that code by the collector's most recent /complete, which is the first
\* of the collector's assigned requests; that one row changes status and every
\* other request, the collector's other assigned requests included, is as before.
C31_CompletionBoundToRecipient ==
    /\ [](prog = "bot" =>
            \A uid \in people :
               conv[uid] = ENTER_VERIFICATION_CODE => SessionNamesFirstAssigned(uid))
    /\ [][prog = "bot" => \A uid \in people : CodeWentToCreator(uid)]_vars
    /\ []MatchCompletesNamedRequest

\* C31 happens: a collector with two assigned requests has just had a code
\* accepted; the first request is completed and the second is still assigned.
C31_Witness ==
    /\ prog = "bot"
    /\ last.handler = "verify_pickup_code"
    /\ Len(pickup_requests) = 2
    /\ pickup_requests[1].status = "completed"
    /\ pickup_requests[2].status = "assigned"
    /\ pickup_requests[2].collector_id = Some(last.user)
    /\ pickup_requests[1].collector_id = Some(last.user)


\* The recycler uid awaits a recycling code: the session names a pending
\* transaction and the code to compare with is the code stored on its row.
SessionHoldsStoredCode(uid) ==
    LET transaction_info == user_data[uid].current_transaction
    IN  /\ transaction_info # None
        /\ \E i \in 1..Len(recycling_transactions) :
              /\ recycling_transactions[i].id = transaction_info[1]
              /\ recycling_transactions[i].status = "pending"
              /\ recycling_transactions[i].verification_code = transaction_info[3]

\* The code stored on a pending transaction changes only in a step in which the
\* transaction's recycler goes from the weight step to awaiting the code.
StoredCodeKept ==
    \A i \in 1..Len(recycling_transactions) :
       ( /\ recycling_transactions[i].status = "pending"
         /\ recycling_transactions[i].verification_code # None )
       => /\ i <= Len(recycling_transactions')
          /\ recycling_transactions'[i].id = recycling_transactions[i].id
          /\ \/ recycling_transactions'[i].verification_code
                   = recycling_transactions[i].verification_code
             \/ LET uid == recycling_transactions[i].recycler_id
                IN  /\ conv[uid] = ENTER_WEIGHT
                    /\ conv'[uid] = ENTER_RECYCLING_VERIFICATION
                    /\ recycling_transactions'[i].status = "pending"

\* /verify_recycling writes no table and takes the code from the row it reads.
VerifyRecyclingReadsCode ==
    prog = "bot" =>
      \A uid \in people :
         conv[uid] = END =>
            \A pick \in LatestPending(uid) :
               LET o == verify_recycling_outcome(uid, pick)
               IN  /\ o.recycling_transactions = recycling_transactions
                   /\ o.users = users
                   /\ o.pickup_requests = pickup_requests
                   /\ NewConv(uid, o) = ENTER_RECYCLING_VERIFICATION
                      => /\ pick # 0
                         /\ o.data.current_transaction # None
                         /\ o.data.current_transaction[1] = recycling_transactions[pick].id
                         /\ o.data.current_transaction[3]
                               = recycling_transactions[pick].verification_code

\* C32: the code that weight recording stored on a pending recycling
\* transaction is the code every later /verify_recycling attempt on that
\* transaction compares with, until the transaction is completed or a further
\* weight recording replaces the code; /verify_recycling writes no code.
C32_RecyclingCodePersists ==
    /\ [](prog = "bot" =>
            \A uid \in people :
               conv[uid] = ENTER_RECYCLING_VERIFICATION => SessionHoldsStoredCode(uid))
    /\ [][prog = "bot" => StoredCodeKept]_vars
    /\ []VerifyRecyclingReadsCode

\* C32 happens: after an earlier attempt on a weighed transaction ended, the
\* recycler has sent /verify_recycling again and awaits the same stored code.
C32_Witness ==
    /\ prog = "bot"
    /\ last.handler = "verify_recycling"
    /\ conv[last.user] = ENTER_RECYCLING_VERIFICATION
    /\ user_data[last.user].current_transaction # None
    /\ user_data[last.user].current_transaction[3] # None
    /\ \E i \in 1..Len(recycling_transactions) :
          /\ recycling_transactions[i].id = user_data[last.user].current_transaction[1]
          /\ recycling_transactions[i].status = "pending"
          /\ recycling_transactions[i].verification_code
                = user_data[last.user].current_transaction[3]


(***************************************************************************)
(* The whole bot with the three roles present: a collector and a recycling *)
(* company that have registered, and a waste creator who has yet to.       *)
(***************************************************************************)
InitLedger ==
    /\ prog = "bot"
    /\ people = {1, 2, 3}
    /\ users = {RegisteredRow(2, 1, 1), RegisteredRow(3, 1, 1)}
    /\ pickup_requests = <<>>
    /\ recycling_transactions = <<>>
    /\ conv = [u \in Ids |-> END]
    /\ user_data = [u \in Ids |-> IF u \in {2, 3} THEN RegisteredData(u) ELSE EmptyData]
    /\ last = [handler |-> "init", user |-> 0, text |-> <<>>, ret |-> RetNone, events |-> <<>>]
    /\ expected = [u \in Ids |-> None]
    /\ buttons = {}

SpecLedger == InitLedger /\ [][Next]_vars

\* C33: in every state of the bot each pickup request's creator_id is the id of
\* a participant with role 'Waste Creator' and its collector_id, when not
\* NULL, of one with role 'Waste Collector'; each recycling transaction's
\* collector_id is the id of a 'Waste Collector' and its recycler_id of a
\* 'Recycling Company'.
C33_LedgerRoleIntegrity ==
    prog = "bot" =>
      /\ \A i \in 1..Len(pickup_requests) :
            LET r == pickup_requests[i]
            IN  /\ HasRole(r.creator_id, Creator)
                /\ r.collector_id # None => HasRole(r.collector_id[1], Collector)
      /\ \A i \in 1..Len(recycling_transactions) :
            LET t == recycling_transactions[i]
            IN  /\ t.collector_id # None
                /\ HasRole(t.collector_id[1], Collector)
                /\ HasRole(t.recycler_id, Recycler)

\* C33 happens: the ledger holds a request with its collector and a recycling
\* transaction.
C33_Witness ==
    /\ prog = "bot"
    /\ \E i \in 1..Len(pickup_requests) : pickup_requests[i].collector_id # None
    /\ recycling_transactions # <<>>


\* C34: /status of a registered participant replaces that participant's
\* is_online by the other of 0 and 1 and changes nothing else in users,
\* pickup_requests or recycling_transactions, so that a second /status writes
\* the original flag again; /status of an unregistered sender changes nothing.
\* (A run of the handler whose store call raises writes nothing at all.)
C34_StatusToggle ==
    prog = "bot" =>
      \A uid \in people, store \in StoreResults :
         LET o == toggle_status_outcome(uid, store)
             current_status == FetchUser(uid)
         IN  /\ o.pickup_requests = pickup_requests
             /\ o.recycling_transactions = recycling_transactions
             /\ o.data = user_data[uid]
             /\ NewConv(uid, o) = conv[uid]
             /\ current_status = None => o.users = users
             /\ (current_status # None /\ store = "ok") =>
                   LET row == current_status[1]
                       flipped == new_status(row.is_online)
                   IN  /\ row.is_online \in {0, 1}
                       /\ flipped \in {0, 1} \ {row.is_online}
                       /\ o.users = (users \ {row}) \cup {[row EXCEPT !.is_online = flipped]}
                       /\ new_status(flipped) = row.is_online

\* C34 happens: a registered participant is offline after a /status, next to a
\* person who has not registered.
C34_Witness ==
    /\ prog = "bot"
    /\ \E u \in users : u.telegram_id \in people /\ u.is_online = 0
    /\ \E uid \in people : FetchUser(uid) = None


\* The directory of the running program as the bot's SELECTs see it (key
\* telegram_id) and as the menu program's see it (key id).
AsBotRow(u) == [telegram_id |-> u.id, latitude |-> u.latitude, longitude |-> u.longitude,
                role |-> u.role, is_online |-> u.is_online]
AsCliRow(u) == [id |-> u.telegram_id, latitude |-> u.latitude, longitude |-> u.longitude,
                role |-> u.role, is_online |-> u.is_online]
BotView == IF prog = "bot" THEN users ELSE {AsBotRow(u) : u \in users}
CliView == IF prog = "cli" THEN users ELSE {AsCliRow(u) : u \in users}

\* On the creator with id creator_id the two dispatchers choose the same collector.
SameChoice(creator_id) ==
    LET creator == CHOOSE u \in BotView : u.telegram_id = creator_id
        collectors == OnlineCollectors(BotView)
    IN  find_available_collector(CliView, creator_id)
           = Some(nearest_collector(creator, collectors).telegram_id)

\* C35: for every creator with known coordinates and every list of online
\* collectors of which at least one has known coordinates, the bot's min()
\* over the list and the menu program's find_available_collector choose the
\* same collector.
C35_DispatcherEquivalence ==
    \A c \in BotView :
       LET collectors == OnlineCollectors(BotView)
       IN  ( /\ c.role = Creator
             /\ Known(c)
             /\ \E i \in 1..Len(collectors) : Known(collectors[i]) )
           => SameChoice(c.telegram_id)
====
